---------------------------- MODULE Spec2Model ----------------------------
(***************************************************************************)
(* Model of the PJ assistant agent (agent/app): the LangGraph pipeline     *)
(* planner -> retriever -> analyzer -> synthesizer (graph.py, nodes/*.py), *)
(* the knowledge-base search it calls (rag/retriever.py) and the HTTP      *)
(* boundary that wraps it (server.py, security.py).                        *)
(*                                                                         *)
(* Representation:                                                         *)
(*  - a Python Optional is a sequence of length <= 1 (<<>> is None);       *)
(*  - a string that is only tested for emptiness or copied is a sequence   *)
(*    of character tokens (<<>> is "");                                    *)
(*  - floats that are sums of the literals 0.5, 0.15, 0.1 are kept in      *)
(*    hundredths (confidence 65 is 0.65): for each of the 16 sums the      *)
(*    IEEE double the code computes is the double nearest to the decimal,  *)
(*    so comparisons with 0.3, 0.5 and 1.0 agree with the integers;        *)
(*  - relevance scores are in hundredths too (30 is 0.3).                  *)
(***************************************************************************)
EXTENDS Integers, Sequences, FiniteSets, TLC

\* ------------------------------------------------------------ bounds
\* Longest transaction list a request carries.
MaxTx == 2
\* Most rows the vector store hands back for one search.
MaxResults == 2
\* Requests the boundary receives in one behaviour.
MaxRequests == 2
\* Last instant of the wall clock.
MaxTime == 2
\* settings.rate_limit_per_user (100 per hour), scaled down.
RateLimitPerUser == 1
\* RateLimiter.window_seconds (3600), scaled down.
WindowSeconds == 2
\* settings.max_input_length (5000), scaled down.
MaxInputLength == 3
\* CostController.max_daily_cost (1.0 USD) in cost units, scaled down.
MaxDailyCost == 5
\* CostController reset period (86400 s), scaled down.
ResetSeconds == 2

\* Initialisations of the store recorded in one behaviour.
MaxBuilds == 2
\* add_documents batch_size (50), scaled down.
BatchSize == 2

\* Callers that make their first use of the store at the same time.
MaxThreads == 3

\* Calls of a quota tracker recorded in one behaviour.
MaxCalls == 3

\* ------------------------------------------------------------ constants
\* score_threshold default of search_knowledge_base (0.3), in hundredths.
ScoreThreshold == 30
\* top_k the Retriever passes to search_knowledge_base.
TopK == 3
\* Categories the analysis lists.
TopCategories == 5

None == <<>>
Some(x) == <<x>>

\* ------------------------------------------------------------ inputs
Customers == {"cust-1"}

\* CustomerProfile: the fields the pipeline reads.
Profiles ==
  { [segment |-> "middle", monthly_revenue |-> 50000, credit_score |-> 700] }

\* Transaction: signed amount and category ("" is unlabeled).
Transactions ==
  { [amount |-> 1, category |-> "rev"],
    [amount |-> -1, category |-> ""] }

RECURSIVE SeqsUpTo(_, _)
SeqsUpTo(S, n) ==
  IF n = 0 THEN {<<>>}
  ELSE LET shorter == SeqsUpTo(S, n - 1)
       IN  shorter \cup {Append(s, x) : s \in shorter, x \in S}

TransactionLists == SeqsUpTo(Transactions, MaxTx)

\* Query texts over the characters: "a" a letter, "I"/"i" and "j" the letters
\* of an injection pattern ("ij" stands for a pattern such as "override"),
\* " " blank, "c" a control character (\x00).
QueryTexts ==
  { <<>>,
    <<"a">>,
    <<" ", "a", " ">>,
    <<"I", "j">>,
    <<"i", "c", "j">>,
    <<"a", "a", "a", "a">> }

\* A row the store returns: page content, metadata source (None when the
\* metadata has no "source" key) and relevance score in hundredths.
Rows ==
  { [page_content |-> <<"k1">>, source |-> Some("kb1.md"), score |-> 80],
    [page_content |-> <<"k2">>, source |-> Some("kb2.md"), score |-> 20],
    [page_content |-> <<>>, source |-> None, score |-> 30] }

ResultLists == SeqsUpTo(Rows, MaxResults)

\* What the generative backend answers: content and token usage metadata
\* (None when the response has no token_usage).
Contents == { <<>>, <<"advice">>, <<"advice", "cnpj">> }

Usages ==
  { None,
    Some([prompt_tokens |-> 2, completion_tokens |-> 1, total_tokens |-> 3]) }

VARIABLES
  state,         \* AgentState of the run in flight
  pc,            \* where the workflow engine / request handler is
  hist,          \* per executed node: the state it was invoked on, its delta
  vector_store,  \* rag.retriever._vector_store: "none", "supabase", "chroma"
  request,       \* the AgentRequest being handled (None outside the boundary)
  response,      \* what the caller got for the last request
  requests,      \* RateLimiter._requests: customer -> timestamps
  daily_costs,   \* CostController._daily_costs: customer -> cost units
  last_reset,    \* CostController._last_reset
  fallback_rate, \* observability.FALLBACK_RATE
  now,           \* wall clock
  received,      \* requests received so far
  searched,      \* the last search_knowledge_base call: what the store gave, what came back
  kb_files,      \* the knowledge_base directory: None, or the *.md files in path order
  documents,     \* the remote "documents" table: rows keyed by id
  build_log,     \* per get_vector_store initialisation: what it read and what it issued
  threads,       \* callers inside get_vector_store: position and what each built
  instances,     \* store instances built so far in this process
  calls,         \* calls of a quota tracker so far: key, time, verdict
  loop           \* the server's event loop: the task it is running, every task's position

vars == << state, pc, hist, vector_store, request, response, requests,
           daily_costs, last_reset, fallback_rate, now, received,
           searched, kb_files, documents, build_log, threads, instances, calls, loop >>

boundary_vars == << request, response, requests, daily_costs, last_reset,
                    fallback_rate, now, received >>

\* State of the components that the graph and the request handler reach only
\* through search_knowledge_base and rate_limiter.is_allowed.
component_vars == << searched, kb_files, documents, build_log, threads,
                     instances, calls, loop >>

\* No request has reached the event loop.
NoTasks == [running |-> 0, tasks |-> <<>>]

\* ------------------------------------------------------------ models.py
ZeroUsage == [prompt_tokens |-> 0, completion_tokens |-> 0, total_tokens |-> 0]

NoReasoning == [kind |-> "none", n_transactions |-> 0, n_sources |-> 0]

\* AgentState(customer_id=..., profile=..., transactions=..., query=...):
\* every other field takes its default.
AgentState(customer_id, profile, transactions, query) ==
  [ customer_id |-> customer_id,
    profile |-> profile,
    transactions |-> transactions,
    query |-> query,
    plan |-> <<>>,
    retrieved_context |-> <<>>,
    rag_sources |-> <<>>,
    tool_results |-> <<>>,
    tools_executed |-> <<>>,
    answer |-> <<>>,
    reasoning |-> NoReasoning,
    confidence |-> 0,
    token_usage |-> ZeroUsage,
    errors |-> <<>> ]

\* Mutant of Merge: the execution log of the state wins over the delta's.
Merge_keeps_log(s, delta) ==
  [k \in DOMAIN s |->
     IF k \in DOMAIN delta /\ k # "tools_executed" THEN delta[k] ELSE s[k]]

\* The engine's merge of a node's delta: every key of the delta overwrites.
Merge(s, delta) ==
  [k \in DOMAIN s |-> IF k \in DOMAIN delta THEN delta[k] ELSE s[k]]

InSeq(x, s) == \E i \in 1..Len(s) : s[i] = x

\* ------------------------------------------------------------ nodes/planner.py
\* Mutant of plan_steps: retrieval is planned only for a request with a query.
plan_steps_query_only(s) ==
  [ plan |-> (IF s.query # <<>> THEN <<"retrieve_knowledge">> ELSE <<>>)
             \o (IF s.transactions # <<>> THEN <<"analyze_financials">> ELSE <<>>) ]

\* Mutant of plan_steps: the analysis is planned unconditionally.
plan_steps_always_analyze(s) ==
  [ plan |-> <<"retrieve_knowledge", "analyze_financials">> ]

\* Mutant of plan_steps: the planner also logs itself in tools_executed.
plan_steps_logs_itself(s) ==
  [ plan |-> IF s.transactions # <<>>
             THEN <<"retrieve_knowledge", "analyze_financials">>
             ELSE <<"retrieve_knowledge">>,
    tools_executed |-> Append(s.tools_executed, "planner") ]

plan_steps(s) ==
  [ plan |-> <<"retrieve_knowledge">>
             \o (IF s.transactions # <<>> THEN <<"analyze_financials">> ELSE <<>>) ]


\* ------------------------------------------------------------ rag/retriever.py
\* What the environment does to one search: how a first-use initialisation of
\* the store ends ("supabase": remote store built; "chroma": remote not
\* configured or its build failed and the local store was opened; "raise":
\* the local store could not be opened either), whether the similarity call
\* raises, and the rows it returns otherwise.
SearchEnvs ==
  [ init : {"supabase", "chroma", "raise"},
    search : {"ok", "raise"},
    rows : {r \in ResultLists : Len(r) <= TopK} ]

\* Mutant of get_vector_store: the store is built on every call.
get_vector_store_rebuilds(vs, init) ==
  IF init = "raise" THEN [raised |-> TRUE, store |-> vs]
  ELSE [raised |-> FALSE, store |-> init]

\* get_vector_store(): the singleton is returned when set; otherwise it is
\* built and cached, and a failed build leaves it unset and raises.
get_vector_store(vs, init) ==
  IF vs # "none" THEN [raised |-> FALSE, store |-> vs]
  ELSE IF init = "raise" THEN [raised |-> TRUE, store |-> "none"]
  ELSE [raised |-> FALSE, store |-> init]

\* Mutant of FilterByScore: the score floor is not applied.
FilterByScore_no_floor(rows, threshold) == rows

RECURSIVE FilterByScore(_, _)
FilterByScore(rows, threshold) ==
  IF rows = <<>> THEN <<>>
  ELSE (IF Head(rows).score >= threshold THEN <<Head(rows)>> ELSE <<>>)
       \o FilterByScore(Tail(rows), threshold)

\* search_knowledge_base(query, top_k): get_vector_store() is called outside
\* the try block, the similarity call inside it.  "failure" tells which
\* backend failure, if any, the call met.
search_knowledge_base(vs, env) ==
  LET got == get_vector_store(vs, env.init)
  IN  IF got.raised
      THEN [raised |-> TRUE, docs |-> <<>>, store |-> got.store,
            failure |-> "store_init"]
      ELSE IF env.search = "raise"
      THEN [raised |-> FALSE, docs |-> <<>>, store |-> got.store,
            failure |-> "search"]
      ELSE [raised |-> FALSE,
            docs |-> FilterByScore(env.rows, ScoreThreshold),
            store |-> got.store,
            failure |-> "none"]

\* ------------------------------------------------------------ rag/supabase_store.py
File(name, text) == [name |-> name, text |-> text]

\* settings.knowledge_base_dir: missing (None) or the *.md files under it in
\* sorted path order; a text is the sequence of chunks the splitter cuts.
Corpora ==
  { None,
    Some(<<>>),
    Some(<< File("a.md", <<"x">>) >>),
    Some(<< File("a.md", <<"y">>) >>),
    Some(<< File("a.md", <<"x">>), File("b.md", <<"x">>) >>),
    Some(<< File("a.md", <<"x", "b.md", "x">>) >>) }

\* The bytes fed to the hasher: each file's name, then its text.
RECURSIVE HashStream(_)
HashStream(files) ==
  IF files = <<>> THEN <<>>
  ELSE <<Head(files).name>> \o Head(files).text \o HashStream(Tail(files))

\* _compute_kb_hash(): the digest is taken as one-to-one on the byte stream.
_compute_kb_hash(kb) ==
  IF kb = None THEN <<"empty">> ELSE <<"sha256">> \o HashStream(kb[1])

\* The documents _seed_knowledge_base builds: one per chunk, tagged with the
\* file name.
RECURSIVE ChunksOf(_)
ChunksOf(files) ==
  IF files = <<>> THEN <<>>
  ELSE [i \in 1..Len(Head(files).text) |->
          [page_content |-> Head(files).text[i], source |-> Head(files).name]]
       \o ChunksOf(Tail(files))

\* Rows of the remote "documents" table.
ChunkRow(doc) ==
  [id |-> <<"md5", doc.page_content>>, content |-> <<doc.page_content>>,
   source |-> Some(doc.source)]

MetaRow(key, value) ==
  [id |-> <<"_meta_", key>>, content |-> value, source |-> None]

\* POST with Prefer: resolution=merge-duplicates, row after row.
RECURSIVE Upsert(_, _)
Upsert(table, rows) ==
  IF rows = <<>> THEN table
  ELSE Upsert({r \in table : r.id # Head(rows).id} \cup {Head(rows)}, Tail(rows))

\* Batches add_documents posts for n rows.
Batches(n) == 1..((n + BatchSize - 1) \div BatchSize)

\* The most chunks a corpus yields.
MostChunks ==
  LET counts == {IF kb = None THEN 0 ELSE Len(ChunksOf(kb[1])) : kb \in Corpora}
  IN  CHOOSE n \in counts : \A m \in counts : m <= n

\* What the backend and the local libraries do to one initialisation: calls
\* that fail, the batches that are refused.
BuildEnvs ==
  [ embedding_fn : {"ok", "raise"},
    hash : {"ok", "raise"},
    get_metadata : {"ok", "fail"},
    delete : {"ok", "fail"},
    embed : {"ok", "raise"},
    refused : SUBSET Batches(MostChunks),
    set_metadata : {"ok", "fail"},
    count : {"ok", "fail"},
    chroma : {"ok", "raise"} ]

\* Every call answered.
HealthyEnvs ==
  { e \in BuildEnvs :
      /\ e.embedding_fn = "ok" /\ e.hash = "ok" /\ e.get_metadata = "ok"
      /\ e.delete = "ok" /\ e.embed = "ok" /\ e.refused = {}
      /\ e.set_metadata = "ok" /\ e.count = "ok" /\ e.chroma = "ok" }

\* SupabaseVectorStore.add_documents(documents), documents not empty
RECURSIVE PostBatches(_, _, _, _)
PostBatches(table, rows, i, refused) ==
  IF rows = <<>> THEN table
  ELSE LET n == IF Len(rows) < BatchSize THEN Len(rows) ELSE BatchSize
           batch == SubSeq(rows, 1, n)
           rest == SubSeq(rows, n + 1, Len(rows))
       IN  PostBatches(IF i \in refused THEN table ELSE Upsert(table, batch),
                       rest, i + 1, refused)

add_documents(table, docs, env) ==
  IF env.embed = "raise"
  THEN [raised |-> TRUE, documents |-> table]
  ELSE [raised |-> FALSE,
        documents |-> PostBatches(table, [i \in 1..Len(docs) |-> ChunkRow(docs[i])],
                                  1, env.refused)]

\* Mutant of get_document_count: only chunk rows are counted.
get_document_count_chunks_only(table, env) ==
  IF env.count = "ok" THEN Cardinality({r \in table : r.source # None}) ELSE 0

\* SupabaseVectorStore.get_document_count()
get_document_count(table, env) ==
  IF env.count = "ok" THEN Cardinality(table) ELSE 0

\* Mutant of delete_all_documents: nothing is deleted.
delete_all_documents_kept(table, env) == table

\* SupabaseVectorStore.delete_all_documents(): the second DELETE it tries when
\* the first is answered with another status is part of the one outcome.
delete_all_documents(table, env) ==
  IF env.delete = "ok" THEN {} ELSE table

\* SupabaseVectorStore.get_metadata_value(key)
get_metadata_value(table, key, env) ==
  IF env.get_metadata = "ok" /\ \E r \in table : r.id = <<"_meta_", key>>
  THEN Some((CHOOSE r \in table : r.id = <<"_meta_", key>>).content)
  ELSE None

\* Mutant of set_metadata_value: the row is never written.
set_metadata_value_dropped(table, key, value, env) == table

\* SupabaseVectorStore.set_metadata_value(key, value)
set_metadata_value(table, key, value, env) ==
  IF env.set_metadata = "ok" THEN Upsert(table, <<MetaRow(key, value)>>)
  ELSE table

\* _seed_knowledge_base(store): nothing is posted for a missing directory or
\* a corpus without chunks.
_seed_knowledge_base(table, kb, env) ==
  IF kb = None THEN [raised |-> FALSE, documents |-> table]
  ELSE LET docs == ChunksOf(kb[1])
       IN  IF docs = <<>> THEN [raised |-> FALSE, documents |-> table]
           ELSE add_documents(table, docs, env)

\* The remote calls among "issued" that the backend failed; for the inserts,
\* whether one of the n rows' batches was refused.
FailedCalls(env, issued, n) ==
  {c \in issued :
     \/ c = "get_metadata" /\ env.get_metadata = "fail"
     \/ c = "delete" /\ env.delete = "fail"
     \/ c = "insert" /\ env.refused \cap Batches(n) # {}
     \/ c = "set_metadata" /\ env.set_metadata = "fail"
     \/ c = "count" /\ env.count = "fail"}

\* build_supabase_store(embedding_fn) against the remote table and the corpus.
\* "ops" lists the steps taken that write, in order, and "failed" the remote
\* calls the backend failed; an exception leaves through "raised" with what
\* had been written so far.
build_supabase_store(table, kb, env) ==
  LET kb_hash == _compute_kb_hash(kb)
      stored_hash == get_metadata_value(table, "kb_content_hash", env)
      n == IF kb = None THEN 0 ELSE Len(ChunksOf(kb[1]))
      posts == IF n = 0 \/ env.embed = "raise" THEN {} ELSE {"insert"}
      answer(raised, docs, ops, issued) ==
        [raised |-> raised, documents |-> docs, ops |-> ops,
         kb_hash |-> kb_hash, stored_hash |-> stored_hash,
         failed |-> FailedCalls(env, issued, n)]
  IN  IF env.hash = "raise"
      THEN [raised |-> TRUE, documents |-> table, ops |-> <<>>,
            kb_hash |-> <<>>, stored_hash |-> None, failed |-> {}]
      ELSE IF stored_hash # Some(kb_hash)
      THEN LET deleted == delete_all_documents(table, env)
               seeded == _seed_knowledge_base(deleted, kb, env)
           IN  IF seeded.raised
               THEN answer(TRUE, seeded.documents, <<"delete_all", "seed">>,
                           {"get_metadata", "delete"})
               ELSE answer(FALSE,
                           set_metadata_value(seeded.documents, "kb_content_hash",
                                              kb_hash, env),
                           <<"delete_all", "seed", "set_hash">>,
                           {"get_metadata", "delete", "set_metadata"} \cup posts)
      ELSE IF get_document_count(table, env) = 0
      THEN LET seeded == _seed_knowledge_base(table, kb, env)
           IN  IF seeded.raised
               THEN answer(TRUE, seeded.documents, <<"seed">>,
                           {"get_metadata", "count"})
               ELSE answer(FALSE,
                           set_metadata_value(seeded.documents, "kb_content_hash",
                                              kb_hash, env),
                           <<"seed", "set_hash">>,
                           {"get_metadata", "count", "set_metadata"} \cup posts)
      ELSE answer(FALSE, table, <<>>, {"get_metadata", "count"})

\* get_vector_store() when the singleton is unset: the embedding function is
\* made outside any try block, build_supabase_store runs inside one, and the
\* Chroma store is loaded or built outside any.
get_vector_store_build(use_supabase, table, kb, env) ==
  LET remote == build_supabase_store(table, kb, env)
      local(docs, tried) ==
        [raised |-> env.chroma = "raise",
         store |-> IF env.chroma = "raise" THEN "none" ELSE "chroma",
         documents |-> docs, remote |-> tried]
  IN  IF env.embedding_fn = "raise"
      THEN [raised |-> TRUE, store |-> "none", documents |-> table, remote |-> None]
      ELSE IF use_supabase
      THEN IF ~remote.raised
           THEN [raised |-> FALSE, store |-> "supabase",
                 documents |-> remote.documents, remote |-> Some(remote)]
           ELSE local(remote.documents, Some(remote))
      ELSE local(table, None)

\* ------------------------------------------------------------ nodes/retriever.py
\* "\n\n---\n\n".join(page contents)
RECURSIVE JoinContents(_)
JoinContents(docs) ==
  IF docs = <<>> THEN <<>>
  ELSE IF Len(docs) = 1 THEN Head(docs).page_content
  ELSE Head(docs).page_content \o <<"---">> \o JoinContents(Tail(docs))

\* doc.metadata.get("source", "unknown")
SourceOf(doc) == IF doc.source = None THEN "unknown" ELSE doc.source[1]

\* Mutant of retrieve_knowledge: no except clause, the exception escapes.
retrieve_knowledge_unguarded(s, found) ==
  IF ~found.raised
  THEN [ retrieved_context |-> JoinContents(found.docs),
         rag_sources |-> [i \in 1..Len(found.docs) |-> SourceOf(found.docs[i])],
         tools_executed |-> Append(s.tools_executed, "rag_retrieval") ]
  ELSE [ raise |-> TRUE ]

\* Mutant of retrieve_knowledge: an empty result is reported as a failure.
retrieve_knowledge_empty_is_error(s, found) ==
  IF ~found.raised /\ found.docs # <<>>
  THEN [ retrieved_context |-> JoinContents(found.docs),
         rag_sources |-> [i \in 1..Len(found.docs) |-> SourceOf(found.docs[i])],
         tools_executed |-> Append(s.tools_executed, "rag_retrieval") ]
  ELSE [ retrieved_context |-> <<>>,
         rag_sources |-> <<>>,
         errors |-> Append(s.errors, "RAG retrieval failed"),
         tools_executed |-> Append(s.tools_executed, "rag_retrieval_failed") ]

\* retrieve_knowledge(state), given what search_knowledge_base did.  The query
\* text it builds from the profile and the query only feeds the search call.
retrieve_knowledge(s, found) ==
  IF ~found.raised
  THEN [ retrieved_context |-> JoinContents(found.docs),
         rag_sources |-> [i \in 1..Len(found.docs) |-> SourceOf(found.docs[i])],
         tools_executed |-> Append(s.tools_executed, "rag_retrieval") ]
  ELSE [ retrieved_context |-> <<>>,
         rag_sources |-> <<>>,
         errors |-> Append(s.errors, "RAG retrieval failed"),
         tools_executed |-> Append(s.tools_executed, "rag_retrieval_failed") ]

\* ------------------------------------------------------------ nodes/analyzer.py
RECURSIVE SumIf(_, _)
\* sum(t.amount for t in transactions if sign * t.amount > 0)
SumIf(txs, sign) ==
  IF txs = <<>> THEN 0
  ELSE (IF sign * Head(txs).amount > 0 THEN Head(txs).amount ELSE 0)
       + SumIf(Tail(txs), sign)

Abs(x) == IF x < 0 THEN -x ELSE x

NoData == [kind |-> "no_data", total_income |-> 0, total_expenses |-> 0,
           net_cashflow |-> 0, n_transactions |-> 0, categories |-> <<>>,
           top_categories |-> <<>>, indicator |-> "none", has_ratio |-> FALSE]

\* {**tool_results, key: value}: replaces the value of an existing key in
\* place, appends a new key.
DictSet(d, key, value) ==
  IF \E i \in 1..Len(d) : d[i].key = key
  THEN [i \in 1..Len(d) |-> IF d[i].key = key
                            THEN [key |-> key, value |-> value] ELSE d[i]]
  ELSE Append(d, [key |-> key, value |-> value])

\* Mutant of CategoryVolumes: the signed amount is added.
RECURSIVE CategoryVolumes_signed(_, _)
CategoryVolumes_signed(txs, categories) ==
  IF txs = <<>> THEN categories
  ELSE LET cat == IF Head(txs).category = "" THEN "uncategorized"
                  ELSE Head(txs).category
           old == IF \E i \in 1..Len(categories) : categories[i].key = cat
                  THEN (CHOOSE e \in {categories[i] : i \in 1..Len(categories)} :
                          e.key = cat).value
                  ELSE 0
       IN  CategoryVolumes_signed(Tail(txs),
                                  DictSet(categories, cat, old + Head(txs).amount))

\* The loop over the transactions that fills the categories dict, kept in
\* first-seen order: cat = t.category or "uncategorized";
\* categories[cat] = categories.get(cat, 0) + abs(t.amount)
RECURSIVE CategoryVolumes(_, _)
CategoryVolumes(txs, categories) ==
  IF txs = <<>> THEN categories
  ELSE LET cat == IF Head(txs).category = "" THEN "uncategorized"
                  ELSE Head(txs).category
           old == IF \E i \in 1..Len(categories) : categories[i].key = cat
                  THEN (CHOOSE e \in {categories[i] : i \in 1..Len(categories)} :
                          e.key = cat).value
                  ELSE 0
       IN  CategoryVolumes(Tail(txs),
                           DictSet(categories, cat, old + Abs(Head(txs).amount)))

\* sorted(categories.items(), key=value, reverse=True)[:5]: a stable sort,
\* entries of equal volume stay in first-seen order.
TopOf(categories) ==
  LET n == Len(categories)
      before(i) == Cardinality({j \in 1..n :
                      \/ categories[j].value > categories[i].value
                      \/ categories[j].value = categories[i].value /\ j < i})
      sorted == [p \in 1..n |-> categories[CHOOSE i \in 1..n : before(i) = p - 1]]
  IN  SubSeq(sorted, 1, IF n < TopCategories THEN n ELSE TopCategories)

\* Mutant of _compute_analysis: a net cash flow of zero counts as positive.
_compute_analysis_zero_positive(txs) ==
  LET total_income == SumIf(txs, 1)
      total_expenses == Abs(SumIf(txs, -1))
      net_cashflow == total_income - total_expenses
      categories == CategoryVolumes(txs, <<>>)
  IN  [ kind |-> "analysis",
        total_income |-> total_income,
        total_expenses |-> total_expenses,
        net_cashflow |-> net_cashflow,
        n_transactions |-> Len(txs),
        categories |-> categories,
        top_categories |-> TopOf(categories),
        indicator |-> IF net_cashflow >= 0 THEN "positive" ELSE "negative",
        has_ratio |-> total_income > 0 ]

_compute_analysis(txs) ==
  LET total_income == SumIf(txs, 1)
      total_expenses == Abs(SumIf(txs, -1))
      net_cashflow == total_income - total_expenses
      categories == CategoryVolumes(txs, <<>>)
  IN  [ kind |-> "analysis",
        total_income |-> total_income,
        total_expenses |-> total_expenses,
        net_cashflow |-> net_cashflow,
        n_transactions |-> Len(txs),
        categories |-> categories,
        top_categories |-> TopOf(categories),
        indicator |-> IF net_cashflow > 0 THEN "positive" ELSE "negative",
        has_ratio |-> total_income > 0 ]

\* Mutant of analyze_financials: tool_results is started afresh.
analyze_financials_fresh_results(s) ==
  [ tool_results |->
      DictSet(<<>>, "financial_analysis",
              IF s.transactions = <<>> THEN NoData
              ELSE _compute_analysis(s.transactions)),
    tools_executed |-> Append(s.tools_executed, "financial_analysis") ]

\* Mutant of analyze_financials: the execution log is started afresh.
analyze_financials_resets_log(s) ==
  [ tool_results |->
      DictSet(s.tool_results, "financial_analysis",
              IF s.transactions = <<>> THEN NoData
              ELSE _compute_analysis(s.transactions)),
    tools_executed |-> <<"financial_analysis">> ]

analyze_financials(s) ==
  [ tool_results |->
      DictSet(s.tool_results, "financial_analysis",
              IF s.transactions = <<>> THEN NoData
              ELSE _compute_analysis(s.transactions)),
    tools_executed |-> Append(s.tools_executed, "financial_analysis") ]

\* ------------------------------------------------------------ nodes/synthesizer.py
\* What the generative backend does to one call.
LlmOutcomes ==
  [ok : {TRUE}, content : Contents, usage : Usages]
  \cup {[ok |-> FALSE, content |-> <<>>, usage |-> None]}

Apology == <<"desculpe">>

\* Mutant of _estimate_confidence: the profile counts for 0.10 only.
_estimate_confidence_low_profile(s) ==
  LET score == 50
               + (IF s.profile # None THEN 10 ELSE 0)
               + (IF s.transactions # <<>> THEN 15 ELSE 0)
               + (IF s.retrieved_context # <<>> THEN 10 ELSE 0)
               + (IF s.errors = <<>> THEN 10 ELSE 0)
  IN  IF score < 100 THEN score ELSE 100

\* Mutant of _estimate_confidence: the context counts for 0.15 and the sum is
\* returned without min(score, 1.0).
_estimate_confidence_unclamped(s) ==
  50 + (IF s.profile # None THEN 15 ELSE 0)
     + (IF s.transactions # <<>> THEN 15 ELSE 0)
     + (IF s.retrieved_context # <<>> THEN 15 ELSE 0)
     + (IF s.errors = <<>> THEN 10 ELSE 0)

\* Mutant of _estimate_confidence: the score starts at 0.2.
_estimate_confidence_low_base(s) ==
  LET score == 20
               + (IF s.profile # None THEN 15 ELSE 0)
               + (IF s.transactions # <<>> THEN 15 ELSE 0)
               + (IF s.retrieved_context # <<>> THEN 10 ELSE 0)
               + (IF s.errors = <<>> THEN 10 ELSE 0)
  IN  IF score < 100 THEN score ELSE 100

_estimate_confidence(s) ==
  LET score == 50
               + (IF s.profile # None THEN 15 ELSE 0)
               + (IF s.transactions # <<>> THEN 15 ELSE 0)
               + (IF s.retrieved_context # <<>> THEN 10 ELSE 0)
               + (IF s.errors = <<>> THEN 10 ELSE 0)
  IN  IF score < 100 THEN score ELSE 100

\* Mutant of synthesize_response: the except branch returns the estimate
\* instead of 0.0.
synthesize_response_keeps_confidence(s, llm) ==
  IF llm.ok
  THEN [ answer |-> llm.content,
         reasoning |-> [kind |-> "analysis",
                        n_transactions |-> Len(s.transactions),
                        n_sources |-> Len(s.rag_sources)],
         confidence |-> _estimate_confidence(s),
         token_usage |-> IF llm.usage = None THEN ZeroUsage ELSE llm.usage[1],
         tools_executed |-> Append(s.tools_executed, "llm_synthesis") ]
  ELSE [ answer |-> Apology,
         reasoning |-> [kind |-> "error", n_transactions |-> 0, n_sources |-> 0],
         confidence |-> _estimate_confidence(s),
         errors |-> Append(s.errors, "LLM synthesis failed"),
         tools_executed |-> Append(s.tools_executed, "llm_synthesis_failed") ]

synthesize_response(s, llm) ==
  IF llm.ok
  THEN [ answer |-> llm.content,
         reasoning |-> [kind |-> "analysis",
                        n_transactions |-> Len(s.transactions),
                        n_sources |-> Len(s.rag_sources)],
         confidence |-> _estimate_confidence(s),
         token_usage |-> IF llm.usage = None THEN ZeroUsage ELSE llm.usage[1],
         tools_executed |-> Append(s.tools_executed, "llm_synthesis") ]
  ELSE [ answer |-> Apology,
         reasoning |-> [kind |-> "error", n_transactions |-> 0, n_sources |-> 0],
         confidence |-> 0,
         errors |-> Append(s.errors, "LLM synthesis failed"),
         tools_executed |-> Append(s.tools_executed, "llm_synthesis_failed") ]

\* ------------------------------------------------------------ graph.py
should_retrieve(s) ==
  IF InSeq("retrieve_knowledge", s.plan) THEN "retriever" ELSE "analyzer"

\* Mutant of should_analyze: the analyzer is always next.
should_analyze_always(s) == "analyzer"

should_analyze(s) ==
  IF InSeq("analyze_financials", s.plan) THEN "analyzer" ELSE "synthesizer"

\* The edge leaving a node, evaluated on the state after the node's delta.
EdgeFrom(node, s) ==
  CASE node = "planner" -> should_retrieve(s)
    [] node = "retriever" -> should_analyze(s)
    [] node = "analyzer" -> "synthesizer"
    [] node = "synthesizer" -> "END"

\* One engine step: the node ran on the current state and returned delta.  A
\* node that raises (a delta with a "raise" key) ends the run with the
\* exception; otherwise the delta is merged and the outgoing edge is taken.
\* hist also keeps the backend failure the node met ("none" without one).
RunNode(node, delta, failure) ==
  /\ hist' = Append(hist, [node |-> node, input |-> state, delta |-> delta,
                           failure |-> failure])
  /\ IF "raise" \in DOMAIN delta
     THEN /\ state' = state
          /\ pc' = "raised"
     ELSE /\ state' = Merge(state, delta)
          /\ pc' = EdgeFrom(node, Merge(state, delta))

PlannerStep ==
  /\ pc = "planner"
  /\ RunNode("planner", plan_steps(state), "none")
  /\ UNCHANGED << vector_store, boundary_vars >>
  /\ UNCHANGED component_vars

RetrieverStep ==
  /\ pc = "retriever"
  /\ \E env \in SearchEnvs :
       LET found == search_knowledge_base(vector_store, env)
       IN  /\ vector_store' = found.store
           /\ RunNode("retriever", retrieve_knowledge(state, found), found.failure)
  /\ UNCHANGED boundary_vars
  /\ UNCHANGED component_vars

AnalyzerStep ==
  /\ pc = "analyzer"
  /\ RunNode("analyzer", analyze_financials(state), "none")
  /\ UNCHANGED << vector_store, boundary_vars >>
  /\ UNCHANGED component_vars

SynthesizerStep ==
  /\ pc = "synthesizer"
  /\ \E llm \in LlmOutcomes :
       RunNode("synthesizer", synthesize_response(state, llm),
               IF llm.ok THEN "none" ELSE "generation")
  /\ UNCHANGED << vector_store, boundary_vars >>
  /\ UNCHANGED component_vars

\* ------------------------------------------------------------ security.py
Take(s, n) == IF Len(s) <= n THEN s ELSE SubSeq(s, 1, n)

RECURSIVE RemoveControl(_)
\* re.sub(r"[\x00-\x08\x0b\x0c\x0e-\x1f\x7f]", "", text)
RemoveControl(s) ==
  IF s = <<>> THEN <<>>
  ELSE (IF Head(s) = "c" THEN <<>> ELSE <<Head(s)>>) \o RemoveControl(Tail(s))

RECURSIVE Strip(_)
\* text.strip()
Strip(s) ==
  IF s = <<>> THEN <<>>
  ELSE IF Head(s) = " " THEN Strip(Tail(s))
  ELSE IF s[Len(s)] = " " THEN Strip(SubSeq(s, 1, Len(s) - 1))
  ELSE s

sanitize_input(text) ==
  IF text = <<>> THEN text
  ELSE Strip(RemoveControl(Take(text, MaxInputLength)))

\* text.lower()
Lower(s) == [i \in 1..Len(s) |-> IF s[i] = "I" THEN "i" ELSE s[i]]

\* re.search over INJECTION_PATTERNS: the pattern "ij" occurs in the text.
detect_prompt_injection(text) ==
  LET lower_text == Lower(text)
  IN  \E i \in 1..(Len(lower_text) - 1) :
        lower_text[i] = "i" /\ lower_text[i + 1] = "j"

\* re.sub over PII_PATTERNS: each PII token is replaced by its marker.
redact_pii(text) ==
  [i \in 1..Len(text) |-> IF text[i] = "cnpj" THEN "[CNPJ_REDACTED]" ELSE text[i]]

RECURSIVE Newer_inclusive(_, _)
\* Mutant of Newer: a timestamp exactly at window_start is kept.
Newer_inclusive(timestamps, window_start) ==
  IF timestamps = <<>> THEN <<>>
  ELSE (IF Head(timestamps) >= window_start THEN <<Head(timestamps)>> ELSE <<>>)
       \o Newer_inclusive(Tail(timestamps), window_start)

RECURSIVE Newer(_, _)
\* [ts for ts in timestamps if ts > window_start]
Newer(timestamps, window_start) ==
  IF timestamps = <<>> THEN <<>>
  ELSE (IF Head(timestamps) > window_start THEN <<Head(timestamps)>> ELSE <<>>)
       \o Newer(Tail(timestamps), window_start)

\* Mutant of is_allowed: the limit is compared with > instead of >=.
is_allowed_one_more(reqs, customer_id, t) ==
  LET cleaned == Newer(reqs[customer_id], t - WindowSeconds)
  IN  IF Len(cleaned) > RateLimitPerUser
      THEN [allowed |-> FALSE,
            requests |-> [reqs EXCEPT ![customer_id] = cleaned]]
      ELSE [allowed |-> TRUE,
            requests |-> [reqs EXCEPT ![customer_id] = Append(cleaned, t)]]

\* Mutant of is_allowed: the limit is applied to the requests of all keys
\* together.
is_allowed_shared_limit(reqs, customer_id, t) ==
  LET cleaned == Newer(reqs[customer_id], t - WindowSeconds)
      recent == {e \in (DOMAIN reqs) \X (1..MaxCalls) :
                   e[2] <= Len(Newer(reqs[e[1]], t - WindowSeconds))}
  IN  IF Cardinality(recent) >= RateLimitPerUser
      THEN [allowed |-> FALSE,
            requests |-> [reqs EXCEPT ![customer_id] = cleaned]]
      ELSE [allowed |-> TRUE,
            requests |-> [reqs EXCEPT ![customer_id] = Append(cleaned, t)]]

\* Mutant of is_allowed: a refused call is recorded too.
is_allowed_records_denied(reqs, customer_id, t) ==
  LET cleaned == Newer(reqs[customer_id], t - WindowSeconds)
  IN  [allowed |-> Len(cleaned) < RateLimitPerUser,
       requests |-> [reqs EXCEPT ![customer_id] = Append(cleaned, t)]]

\* RateLimiter.is_allowed(customer_id) at time t on the history reqs:
\* the verdict and the history it leaves.
is_allowed(reqs, customer_id, t) ==
  LET cleaned == Newer(reqs[customer_id], t - WindowSeconds)
  IN  IF Len(cleaned) >= RateLimitPerUser
      THEN [allowed |-> FALSE,
            requests |-> [reqs EXCEPT ![customer_id] = cleaned]]
      ELSE [allowed |-> TRUE,
            requests |-> [reqs EXCEPT ![customer_id] = Append(cleaned, t)]]

\* CostController.estimate_cost in units of one thousandth of the price of
\* 1k prompt tokens (0.00015 USD); a completion token costs 0.0006 / 0.00015
\* = 4 times a prompt token.
estimate_cost(prompt_tokens, completion_tokens) ==
  prompt_tokens + 4 * completion_tokens

\* Mutant of record_and_check: a total equal to the limit counts as exceeded.
record_and_check_at_limit(costs, reset_at, customer_id, cost, t) ==
  LET expired == t - reset_at > ResetSeconds
      base == IF expired THEN [c \in DOMAIN costs |-> 0] ELSE costs
      total == base[customer_id] + cost
  IN  [ within |-> ~(total >= MaxDailyCost),
        daily_costs |-> [base EXCEPT ![customer_id] = total],
        last_reset |-> IF expired THEN t ELSE reset_at ]

\* CostController.record_and_check(customer_id, cost) at time t, with
\* _maybe_reset inlined: the verdict and the totals it leaves.
record_and_check(costs, reset_at, customer_id, cost, t) ==
  LET expired == t - reset_at > ResetSeconds
      base == IF expired THEN [c \in DOMAIN costs |-> 0] ELSE costs
      total == base[customer_id] + cost
  IN  [ within |-> ~(total > MaxDailyCost),
        daily_costs |-> [base EXCEPT ![customer_id] = total],
        last_reset |-> IF expired THEN t ELSE reset_at ]

\* ------------------------------------------------------------ server.py
AgentRequests ==
  [ customer_id : Customers,
    profile : Profiles,
    transactions : SeqsUpTo(Transactions, 1),
    query : {None} \cup {Some(q) : q \in QueryTexts} ]

NoResponse ==
  [ status |-> 0, answer |-> <<>>, reasoning |-> NoReasoning, sources |-> <<>>,
    confidence |-> 0, tokens_used |-> ZeroUsage, tools_executed |-> <<>> ]

ErrorResponse(status) == [NoResponse EXCEPT !.status = status]

GenericAnswer == <<"consulte seu gerente">>

IdleState == AgentState("", None, <<>>, <<>>)

\* The clock moves between requests; only the handler's first statement and
\* the cost controller read it.
Tick ==
  /\ pc = "idle"
  /\ now < MaxTime
  /\ now' = now + 1
  /\ UNCHANGED << state, pc, hist, vector_store, request, response, requests,
                  daily_costs, last_reset, fallback_rate, received >>
  /\ UNCHANGED component_vars

\* Mutant of Receive: the initial state is built before the security checks.
Receive_state_first ==
  /\ pc = "idle"
  /\ received < MaxRequests
  /\ \E req \in AgentRequests :
       LET verdict == is_allowed(requests, req.customer_id, now)
           raw == IF req.query = None THEN <<>> ELSE req.query[1]
       IN  /\ request' = Some(req)
           /\ requests' = verdict.requests
           /\ state' = AgentState(req.customer_id, Some(req.profile),
                                  req.transactions, sanitize_input(raw))
           /\ IF ~verdict.allowed
              THEN /\ response' = ErrorResponse(429)
                   /\ pc' = "responded"
              ELSE IF raw # <<>> /\ detect_prompt_injection(raw)
              THEN /\ response' = ErrorResponse(400)
                   /\ pc' = "responded"
              ELSE /\ pc' = "planner"
                   /\ response' = NoResponse
  /\ received' = received + 1
  /\ hist' = <<>>
  /\ UNCHANGED << vector_store, daily_costs, last_reset, fallback_rate, now >>
  /\ UNCHANGED component_vars

\* Mutant of Receive: the injection check comes first, the rate limiter is
\* asked only for a request that passed it.
Receive_injection_first ==
  /\ pc = "idle"
  /\ received < MaxRequests
  /\ \E req \in AgentRequests :
       LET verdict == is_allowed(requests, req.customer_id, now)
           raw == IF req.query = None THEN <<>> ELSE req.query[1]
       IN  /\ request' = Some(req)
           /\ IF raw # <<>> /\ detect_prompt_injection(raw)
              THEN /\ response' = ErrorResponse(400)
                   /\ pc' = "responded"
                   /\ UNCHANGED << state, requests >>
              ELSE IF ~verdict.allowed
              THEN /\ response' = ErrorResponse(429)
                   /\ pc' = "responded"
                   /\ requests' = verdict.requests
                   /\ UNCHANGED state
              ELSE /\ state' = AgentState(req.customer_id, Some(req.profile),
                                          req.transactions, sanitize_input(raw))
                   /\ pc' = "planner"
                   /\ requests' = verdict.requests
                   /\ response' = NoResponse
  /\ received' = received + 1
  /\ hist' = <<>>
  /\ UNCHANGED << vector_store, daily_costs, last_reset, fallback_rate, now >>
  /\ UNCHANGED component_vars

\* invoke_agent up to agent_graph.invoke: rate limit, injection check,
\* sanitisation, initial state.
Receive ==
  /\ pc = "idle"
  /\ received < MaxRequests
  /\ \E req \in AgentRequests :
       LET verdict == is_allowed(requests, req.customer_id, now)
           raw == IF req.query = None THEN <<>> ELSE req.query[1]
       IN  /\ request' = Some(req)
           /\ requests' = verdict.requests
           /\ IF ~verdict.allowed
              THEN /\ response' = ErrorResponse(429)
                   /\ pc' = "responded"
                   /\ UNCHANGED state
              ELSE IF raw # <<>> /\ detect_prompt_injection(raw)
              THEN /\ response' = ErrorResponse(400)
                   /\ pc' = "responded"
                   /\ UNCHANGED state
              ELSE /\ state' = AgentState(req.customer_id, Some(req.profile),
                                          req.transactions, sanitize_input(raw))
                   /\ pc' = "planner"
                   /\ response' = NoResponse
  /\ received' = received + 1
  /\ hist' = <<>>
  /\ UNCHANGED << vector_store, daily_costs, last_reset, fallback_rate, now >>
  /\ UNCHANGED component_vars

\* Mutant of Fallback: only an empty answer counts as a fallback.
Fallback_empty_only(confidence, answer) ==
  [ counted |-> answer = <<>>,
    answer |-> IF answer = <<>> THEN GenericAnswer ELSE answer ]

\* The fallback branch of invoke_agent: the verdict, and the answer returned.
Fallback(confidence, answer) ==
  [ counted |-> confidence < 30 \/ answer = <<>>,
    answer |-> IF (confidence < 30 \/ answer = <<>>) /\ answer = <<>>
               THEN GenericAnswer ELSE answer ]

\* Mutant of Respond: a request that takes the customer over the daily limit
\* is answered with 429.
Respond_blocks_over_limit ==
  /\ pc \in {"END", "raised"}
  /\ request # None
  /\ IF pc = "raised"
     THEN /\ response' = ErrorResponse(500)
          /\ UNCHANGED << daily_costs, last_reset, fallback_rate >>
     ELSE LET usage == state.token_usage
              cost == estimate_cost(usage.prompt_tokens, usage.completion_tokens)
              checked == record_and_check(daily_costs, last_reset,
                                          state.customer_id, cost, now)
              fb == Fallback(state.confidence, redact_pii(state.answer))
          IN  /\ daily_costs' = checked.daily_costs
              /\ last_reset' = checked.last_reset
              /\ fallback_rate' = fallback_rate + (IF fb.counted THEN 1 ELSE 0)
              /\ response' = IF ~checked.within THEN ErrorResponse(429)
                             ELSE [ status |-> 200,
                                    answer |-> fb.answer,
                                    reasoning |-> state.reasoning,
                                    sources |-> state.rag_sources,
                                    confidence |-> state.confidence,
                                    tokens_used |-> usage,
                                    tools_executed |-> state.tools_executed ]
  /\ pc' = "responded"
  /\ UNCHANGED << state, hist, vector_store, request, requests, now, received >>
  /\ UNCHANGED component_vars

\* invoke_agent after agent_graph.invoke returned (or raised): metrics, cost,
\* PII redaction, fallback, response.
Respond ==
  /\ pc \in {"END", "raised"}
  /\ request # None
  /\ IF pc = "raised"
     THEN /\ response' = ErrorResponse(500)
          /\ UNCHANGED << daily_costs, last_reset, fallback_rate >>
     ELSE LET usage == state.token_usage
              cost == estimate_cost(usage.prompt_tokens, usage.completion_tokens)
              checked == record_and_check(daily_costs, last_reset,
                                          state.customer_id, cost, now)
              fb == Fallback(state.confidence, redact_pii(state.answer))
          IN  /\ daily_costs' = checked.daily_costs
              /\ last_reset' = checked.last_reset
              /\ fallback_rate' = fallback_rate + (IF fb.counted THEN 1 ELSE 0)
              /\ response' = [ status |-> 200,
                               answer |-> fb.answer,
                               reasoning |-> state.reasoning,
                               sources |-> state.rag_sources,
                               confidence |-> state.confidence,
                               tokens_used |-> usage,
                               tools_executed |-> state.tools_executed ]
  /\ pc' = "responded"
  /\ UNCHANGED << state, hist, vector_store, request, requests, now, received >>
  /\ UNCHANGED component_vars

\* The handler returned: the response went to the caller and the request's
\* objects are dropped.
Finish ==
  /\ pc = "responded"
  /\ pc' = "idle"
  /\ state' = IdleState
  /\ hist' = <<>>
  /\ request' = None
  /\ response' = NoResponse
  /\ UNCHANGED << vector_store, requests, daily_costs, last_reset,
                  fallback_rate, now, received >>
  /\ UNCHANGED component_vars

\* ------------------------------------------------------------ specifications
\* Nothing has been searched, initialised or rate-limited yet.
ComponentsUnused ==
  /\ searched = None
  /\ kb_files = None
  /\ documents = {}
  /\ build_log = <<>>
  /\ threads = <<>>
  /\ instances = <<>>
  /\ calls = <<>>
  /\ loop = NoTasks

\* The service: requests arrive one after another at the boundary.
Init ==
  /\ state = IdleState
  /\ pc = "idle"
  /\ hist = <<>>
  /\ vector_store = "none"
  /\ request = None
  /\ response = NoResponse
  /\ requests = [c \in Customers |-> <<>>]
  /\ daily_costs = [c \in Customers |-> 0]
  /\ last_reset = 0
  /\ fallback_rate = 0
  /\ now = 0
  /\ received = 0
  /\ ComponentsUnused

Next ==
  \/ Tick
  \/ Receive
  \/ PlannerStep
  \/ RetrieverStep
  \/ AnalyzerStep
  \/ SynthesizerStep
  \/ Respond
  \/ Finish

Spec == Init /\ [][Next]_vars

\* One run of the compiled graph, agent_graph.invoke(initial_state), on any
\* initial AgentState (the profile may be absent) and with the store singleton
\* unset or already built.
GraphInit ==
  /\ \E c \in Customers, p \in {None} \cup {Some(x) : x \in Profiles},
        txs \in TransactionLists, q \in {sanitize_input(x) : x \in QueryTexts} :
       state = AgentState(c, p, txs, q)
  /\ pc = "planner"
  /\ hist = <<>>
  /\ vector_store \in {"none", "supabase", "chroma"}
  /\ request = None
  /\ response = NoResponse
  /\ requests = [c \in Customers |-> <<>>]
  /\ daily_costs = [c \in Customers |-> 0]
  /\ last_reset = 0
  /\ fallback_rate = 0
  /\ now = 0
  /\ received = 0
  /\ ComponentsUnused

GraphNext ==
  \/ PlannerStep
  \/ RetrieverStep
  \/ AnalyzerStep
  \/ SynthesizerStep

GraphSpec == GraphInit /\ [][GraphNext]_vars

\* The engine runs every scheduled node to completion.
FairGraphSpec == GraphSpec /\ WF_vars(GraphNext)

\* ------------------------------------------------------------ properties
Ran(node) == \E i \in 1..Len(hist) : hist[i].node = node

TimesRun(node) == Cardinality({i \in 1..Len(hist) : hist[i].node = node})

Rank(node) ==
  CASE node = "planner" -> 1
    [] node = "retriever" -> 2
    [] node = "analyzer" -> 3
    [] node = "synthesizer" -> 4

PlanHas(step) == InSeq(step, state.plan)

\* C1: every run of the graph ends at END, whatever the retrieval and the
\* generative backends do; at END the synthesizer has run exactly once and
\* every stage the plan names has run; no node's exception ends the run.
C1_EveryRunReachesDone ==
  /\ <>(pc = "END")
  /\ [](pc = "END" =>
          /\ TimesRun("synthesizer") = 1
          /\ (PlanHas("retrieve_knowledge") => Ran("retriever"))
          /\ (PlanHas("analyze_financials") => Ran("analyzer")))
  /\ [](pc # "raised")

\* A run in which both backends failed and every stage still ran.
C1_Witness ==
  /\ pc = "END"
  /\ \E i \in 1..Len(hist) : hist[i].failure = "store_init"
  /\ \E i \in 1..Len(hist) : hist[i].failure = "generation"
  /\ Ran("analyzer")

\* The value the engine's merged state holds for key k when the i-th node of
\* the run is invoked: that of the latest earlier delta naming k, otherwise
\* the initial state's.
MergedBefore(i, k) ==
  LET setters == {j \in 1..(i - 1) : k \in DOMAIN hist[j].delta}
  IN  IF setters = {} THEN hist[1].input[k]
      ELSE hist[CHOOSE j \in setters : \A m \in setters : m <= j].delta[k]

\* C2: the nodes of one run execute one after the other in the order planner,
\* retriever, analyzer, synthesizer, each at most once, each invoked on the
\* state holding the merged deltas of all nodes before it.
C2_SequentialOnMergedState ==
  /\ hist # <<>> => hist[1].node = "planner"
  /\ \A i \in 1..(Len(hist) - 1) : Rank(hist[i].node) < Rank(hist[i + 1].node)
  /\ \A i \in 1..Len(hist) :
       \A k \in DOMAIN hist[i].input : hist[i].input[k] = MergedBefore(i, k)
  /\ hist # <<>> =>
       \A k \in DOMAIN state : state[k] = MergedBefore(Len(hist) + 1, k)
  /\ pc \in {"planner", "retriever", "analyzer", "synthesizer"} =>
       \A i \in 1..Len(hist) : Rank(hist[i].node) < Rank(pc)

\* All four nodes ran.
C2_Witness == pc = "END" /\ Len(hist) = 4

\* C3: at the end of a run the retriever has run iff the plan names
\* retrieve_knowledge and the analyzer has run iff it names analyze_financials.
C3_PlanDecidesStages ==
  pc = "END" =>
    /\ Ran("retriever") <=> PlanHas("retrieve_knowledge")
    /\ Ran("analyzer") <=> PlanHas("analyze_financials")

\* A run whose plan left the analyzer out, and the analyzer did not run.
C3_Witness ==
  /\ pc = "END"
  /\ Ran("retriever")
  /\ ~PlanHas("analyze_financials")
  /\ ~Ran("analyzer")

\* C4: once the planner has run the plan names retrieve_knowledge, for any
\* profile, transaction list and query.
C4_PlanHasRetrieval == Ran("planner") => PlanHas("retrieve_knowledge")

\* The planner ran on a request with no profile, no transaction, no query.
C4_Witness ==
  /\ Ran("planner")
  /\ state.profile = None
  /\ state.transactions = <<>>
  /\ state.query = <<>>

C6_RetrievalFailureRecorded ==
  \A i \in 1..Len(hist) :
    (hist[i].node = "retriever" /\ hist[i].failure # "none") =>
      /\ "raise" \notin DOMAIN hist[i].delta
      /\ hist[i].delta.retrieved_context = <<>>
      /\ hist[i].delta.rag_sources = <<>>
      /\ "errors" \in DOMAIN hist[i].delta
      /\ Len(hist[i].delta.errors) = Len(hist[i].input.errors) + 1

\* C7: whenever the generative call fails, the synthesizer returns the fixed
\* apology with confidence 0.0, appends exactly one entry to errors and leaves
\* the token usage at zero, and the request is answered with status 200.
C7_GenerationFailureDegrades ==
  /\ pc # "raised"
  /\ \A i \in 1..Len(hist) :
       (hist[i].node = "synthesizer" /\ hist[i].failure = "generation") =>
         /\ state.answer = Apology
         /\ state.confidence = 0
         /\ state.errors = Append(hist[i].input.errors, "LLM synthesis failed")
         /\ state.token_usage = ZeroUsage
         /\ pc = "responded" =>
              /\ response.status = 200
              /\ response.confidence = 0
              /\ response.tokens_used = ZeroUsage

\* A request answered after the generative call failed.
C7_Witness ==
  /\ pc = "responded"
  /\ response.status = 200
  /\ \E i \in 1..Len(hist) : hist[i].failure = "generation"

Holds(b) == IF b THEN 1 ELSE 0

Min(a, b) == IF a < b THEN a ELSE b

\* C8: when the generative call succeeds, confidence is
\* min(1.0, 0.5 + 0.15 [profile] + 0.15 [transactions] + 0.10 [context]
\* + 0.10 [no errors]) on the state the synthesizer was invoked on: 1.0 when
\* all four hold, 0.5 when none does.
C8_ConfidenceFormula ==
  \A i \in 1..Len(hist) :
    (hist[i].node = "synthesizer" /\ hist[i].failure = "none") =>
      LET s == hist[i].input
          profile == s.profile # None
          transactions == s.transactions # <<>>
          context == s.retrieved_context # <<>>
          clean == s.errors = <<>>
          confidence == hist[i].delta.confidence
      IN  /\ confidence = Min(100, 50 + 15 * Holds(profile)
                                      + 15 * Holds(transactions)
                                      + 10 * Holds(context) + 10 * Holds(clean))
          /\ (profile /\ transactions /\ context /\ clean) => confidence = 100
          /\ ~(profile \/ transactions \/ context \/ clean) => confidence = 50
          /\ state.confidence = confidence

\* The generative call succeeded on a state with none of the four.
C8_Witness ==
  /\ pc = "END"
  /\ hist[Len(hist)].failure = "none"
  /\ state.profile = None
  /\ state.transactions = <<>>
  /\ state.retrieved_context = <<>>
  /\ state.errors # <<>>
  /\ state.confidence = 50

\* C9: in every state of a request, from the initial state to the response,
\* confidence lies in [0.0, 1.0].
C9_ConfidenceInRange ==
  /\ state.confidence \in 0..100
  /\ response.confidence \in 0..100
  /\ \A i \in 1..Len(hist) : hist[i].input.confidence \in 0..100

\* A response with the largest confidence.
C9_Witness ==
  /\ pc = "responded"
  /\ response.status = 200
  /\ response.confidence = 100

\* C10: at the boundary, when the final confidence is below 0.3 or the answer
\* is empty, the answer returned is the generic advisor message and the
\* fallback counter goes up by one; in every other case the answer is kept
\* and the counter is not touched.
C10_FallbackReplacesAnswer ==
  [][ (pc = "END" /\ pc' = "responded") =>
        LET answer == redact_pii(state.answer)
            low == state.confidence < 30 \/ answer = <<>>
        IN  /\ low => /\ response'.answer = GenericAnswer
                      /\ fallback_rate' = fallback_rate + 1
            /\ ~low => /\ response'.answer = answer
                       /\ fallback_rate' = fallback_rate ]_vars

\* C10 as amended: the fallback counter goes up by one exactly when the final
\* confidence is below 0.3 or the answer is empty; the answer returned is the
\* generic advisor message only when the answer is empty, and the redacted
\* answer otherwise.
C10_FallbackCountsAndFillsEmpty ==
  [][ (pc = "END" /\ pc' = "responded") =>
        LET answer == redact_pii(state.answer)
            low == state.confidence < 30 \/ answer = <<>>
        IN  /\ fallback_rate' = fallback_rate + Holds(low)
            /\ response'.answer = IF answer = <<>> THEN GenericAnswer
                                  ELSE answer ]_vars

\* A response that kept the apology although confidence is 0.0, counted as a
\* fallback.
C10_Witness ==
  /\ pc = "responded"
  /\ response.status = 200
  /\ response.confidence < 30
  /\ response.answer = Apology
  /\ fallback_rate = 1

\* ------------------------------------------------------------ store initialisation
\* The process makes its first use of the store: get_vector_store() with the
\* singleton unset, under the settings it was started with.
Initialise(envs) ==
  /\ pc = "store"
  /\ vector_store = "none"
  /\ Len(build_log) < MaxBuilds
  /\ \E use_supabase \in BOOLEAN, env \in envs :
       LET got == get_vector_store_build(use_supabase, documents, kb_files, env)
       IN  /\ vector_store' = got.store
           /\ documents' = got.documents
           /\ build_log' = Append(build_log,
                [use_supabase |-> use_supabase, kb |-> kb_files,
                 before |-> documents, after |-> got.documents,
                 remote |-> got.remote, store |-> got.store,
                 raised |-> got.raised])
  /\ UNCHANGED << state, pc, hist, boundary_vars, searched, kb_files, threads,
                  instances, calls, loop >>

\* The process ends; the next one starts with the singleton unset.
Restart ==
  /\ pc = "store"
  /\ vector_store # "none"
  /\ vector_store' = "none"
  /\ UNCHANGED << state, pc, hist, boundary_vars, component_vars >>

\* Files of the knowledge base are added, removed, renamed or rewritten.
EditCorpus ==
  /\ pc = "store"
  /\ Len(build_log) < MaxBuilds
  /\ kb_files' \in Corpora \ {kb_files}
  /\ UNCHANGED << state, pc, hist, vector_store, boundary_vars, searched,
                  documents, build_log, threads, instances, calls, loop >>

\* The remote table loses its chunk rows; the metadata row stays.
LoseChunks ==
  /\ pc = "store"
  /\ Len(build_log) < MaxBuilds
  /\ \E r \in documents : r.source # None
  /\ documents' = {r \in documents : r.source = None}
  /\ UNCHANGED << state, pc, hist, vector_store, boundary_vars, searched,
                  kb_files, build_log, threads, instances, calls, loop >>

StoreInit ==
  /\ state = IdleState
  /\ pc = "store"
  /\ hist = <<>>
  /\ vector_store = "none"
  /\ request = None
  /\ response = NoResponse
  /\ requests = [c \in Customers |-> <<>>]
  /\ daily_costs = [c \in Customers |-> 0]
  /\ last_reset = 0
  /\ fallback_rate = 0
  /\ now = 0
  /\ received = 0
  /\ searched = None
  /\ kb_files \in Corpora
  /\ documents = {}
  /\ build_log = <<>>
  /\ threads = <<>>
  /\ instances = <<>>
  /\ calls = <<>>
  /\ loop = NoTasks

\* Successive processes initialising the store against a backend that
\* answers every call.
StoreNext ==
  \/ Initialise(HealthyEnvs)
  \/ Restart
  \/ EditCorpus
  \/ LoseChunks

StoreSpec == StoreInit /\ [][StoreNext]_vars

\* The same with a backend and local libraries that may fail any call.
FaultyStoreNext ==
  \/ Initialise(BuildEnvs)
  \/ Restart
  \/ EditCorpus
  \/ LoseChunks

FaultyStoreSpec == StoreInit /\ [][FaultyStoreNext]_vars

\* ------------------------------------------------------------ search
\* One call of the retrieval over any store answer: search_knowledge_base
\* (rag/retriever.py) and the node that wraps it (nodes/retriever.py), with
\* what the store returned kept next to what the caller got.
SearchInit ==
  /\ \E c \in Customers, q \in {sanitize_input(x) : x \in QueryTexts} :
       state = AgentState(c, None, <<>>, q)
  /\ pc = "search"
  /\ hist = <<>>
  /\ vector_store \in {"none", "supabase", "chroma"}
  /\ request = None
  /\ response = NoResponse
  /\ requests = [c \in Customers |-> <<>>]
  /\ daily_costs = [c \in Customers |-> 0]
  /\ last_reset = 0
  /\ fallback_rate = 0
  /\ now = 0
  /\ received = 0
  /\ ComponentsUnused

SearchStep ==
  /\ pc = "search"
  /\ \E env \in SearchEnvs :
       LET found == search_knowledge_base(vector_store, env)
           delta == retrieve_knowledge(state, found)
       IN  /\ searched' = Some([env |-> env, found |-> found, delta |-> delta])
           /\ state' = Merge(state, delta)
           /\ vector_store' = found.store
  /\ pc' = "searched"
  /\ UNCHANGED << hist, boundary_vars, kb_files, documents, build_log, threads,
                  instances, calls, loop >>

SearchNext == SearchStep

SearchSpec == SearchInit /\ [][SearchNext]_vars

\* docs is rows with some entries left out, the rest in the same order.
KeepsOrder(docs, rows) ==
  \E f \in [1..Len(docs) -> 1..Len(rows)] :
    /\ \A j \in 1..Len(docs) : docs[j] = rows[f[j]]
    /\ \A j, k \in 1..Len(docs) : j < k => f[j] < f[k]

NothingClears(s) ==
  /\ s.found.failure = "none"
  /\ \A i \in 1..Len(s.env.rows) : s.env.rows[i].score < ScoreThreshold

\* C12: when no candidate clears the threshold the search returns an empty
\* result and raises nothing, and the retriever node sets an empty context and
\* no sources and adds no entry to errors.
C12_NoMatchIsEmptyNotError ==
  (searched # None /\ NothingClears(searched[1])) =>
    /\ searched[1].found.docs = <<>>
    /\ ~searched[1].found.raised
    /\ searched[1].delta.retrieved_context = <<>>
    /\ searched[1].delta.rag_sources = <<>>
    /\ "errors" \notin DOMAIN searched[1].delta
    /\ state.errors = <<>>

\* The store returned candidates, all of them under the threshold.
C12_Witness ==
  /\ searched # None
  /\ NothingClears(searched[1])
  /\ searched[1].env.rows # <<>>
  /\ pc = "searched"

\* ------------------------------------------------------------ store properties
\* The initialisations that went to the remote store.
RemoteBuilds == {i \in 1..Len(build_log) : build_log[i].remote # None}

\* What build_supabase_store reported in the i-th initialisation.
Remote(i) == build_log[i].remote[1]

HasChunks(kb) == kb # None /\ ChunksOf(kb[1]) # <<>>

ChunkRows(table) == {r \in table : r.source # None}

\* The table a full ingest of kb into an empty table leaves once the hash is
\* stored: for each chunk id the row of the last chunk with that id.
SeededTable(kb) ==
  LET docs == IF kb = None THEN <<>> ELSE ChunksOf(kb[1])
  IN  { ChunkRow(docs[i]) : i \in
          {i \in 1..Len(docs) :
             \A j \in (i + 1)..Len(docs) : ChunkRow(docs[j]).id # ChunkRow(docs[i]).id} }
      \cup {MetaRow("kb_content_hash", _compute_kb_hash(kb))}

\* C13: of two successive initialisations of the remote store against the same
\* corpus, the second issues no delete-all and no ingest and leaves the
\* document count as it was.
C13_SecondInitIdempotent ==
  \A i \in RemoteBuilds :
    (i + 1 \in RemoteBuilds /\ build_log[i + 1].kb = build_log[i].kb) =>
      /\ Remote(i + 1).ops = <<>>
      /\ Cardinality(build_log[i + 1].after) = Cardinality(build_log[i + 1].before)
      /\ build_log[i + 1].after = build_log[i + 1].before

\* A corpus with chunks was ingested by one process and found up to date by
\* the next.
C13_Witness ==
  /\ Len(build_log) = 2
  /\ RemoteBuilds = {1, 2}
  /\ build_log[1].kb = build_log[2].kb
  /\ HasChunks(build_log[1].kb)
  /\ "seed" \in {Remote(1).ops[k] : k \in 1..Len(Remote(1).ops)}
  /\ build_log[2].before = build_log[1].after

\* C14: when the computed hash differs from the persisted one, or none is
\* persisted, the initialisation deletes everything, then ingests the whole
\* corpus, then stores the new hash, each once and in that order.
C14_ChangedCorpusReseeds ==
  \A i \in RemoteBuilds :
    Remote(i).stored_hash # Some(Remote(i).kb_hash) =>
      /\ Remote(i).ops = <<"delete_all", "seed", "set_hash">>
      /\ build_log[i].after = SeededTable(build_log[i].kb)

\* The store held the chunks of an earlier corpus under an earlier hash.
C14_Witness ==
  \E i \in RemoteBuilds :
    /\ Remote(i).stored_hash # None
    /\ Remote(i).stored_hash # Some(Remote(i).kb_hash)
    /\ ChunkRows(build_log[i].before) # {}
    /\ HasChunks(build_log[i].kb)
    /\ ChunkRows(build_log[i].before) # ChunkRows(build_log[i].after)

\* C15: when the persisted hash matches and the store holds no chunk, the
\* initialisation ingests again without deleting, so the store has its
\* chunks back.
C15_EmptyStoreRepaired ==
  \A i \in RemoteBuilds :
    (/\ Remote(i).stored_hash = Some(Remote(i).kb_hash)
     /\ ChunkRows(build_log[i].before) = {}
     /\ HasChunks(build_log[i].kb)) =>
      /\ Remote(i).ops = <<"seed", "set_hash">>
      /\ build_log[i].after = SeededTable(build_log[i].kb)

\* The i-th initialisation went to the remote store and did not get through
\* it cleanly: a remote call failed or an exception left build_supabase_store.
RemoteFailed(i) ==
  /\ i \in RemoteBuilds
  /\ (Remote(i).raised \/ Remote(i).failed # {})

\* C16: a configured remote store is the one used, and whenever initialising
\* it fails the process ends up on the local store instead (as long as that
\* one can be built), the caller seeing no error.
C16_RemoteFailureFallsBack ==
  \A i \in 1..Len(build_log) :
    /\ (i \in RemoteBuilds /\ ~RemoteFailed(i)) => build_log[i].store = "supabase"
    /\ (RemoteFailed(i) /\ ~build_log[i].raised) => build_log[i].store = "chroma"

\* ------------------------------------------------------------ concurrent first use
\* Callers of get_vector_store() on separate threads of one process.  The
\* function reads the module global, builds when it read None, and assigns the
\* global; nothing orders one caller's read against another's assignment.
Threads == 1..MaxThreads

\* if _vector_store is not None: return _vector_store
CheckSingleton(t) ==
  /\ pc = "threads"
  /\ threads[t].at = "call"
  /\ IF vector_store # "none"
     THEN threads' = [threads EXCEPT ![t] = [at |-> "returned", got |-> Len(instances)]]
     ELSE threads' = [threads EXCEPT ![t] = [at |-> "building", got |-> 0]]
  /\ UNCHANGED << state, pc, hist, vector_store, boundary_vars, searched,
                  kb_files, documents, build_log, instances, calls, loop >>

\* The rest of the function, run by a caller that read None: the store is
\* built (and the remote one seeded) and assigned to the global.
BuildSingleton(t) ==
  /\ pc = "threads"
  /\ threads[t].at = "building"
  /\ \E init \in {"supabase", "chroma", "raise"} :
       LET got == get_vector_store("none", init)
       IN  IF got.raised
           THEN /\ threads' = [threads EXCEPT ![t] = [at |-> "raised", got |-> 0]]
                /\ UNCHANGED << vector_store, instances >>
           ELSE /\ instances' = Append(instances, got.store)
                /\ vector_store' = got.store
                /\ threads' = [threads EXCEPT ![t] =
                                 [at |-> "returned", got |-> Len(instances) + 1]]
  /\ UNCHANGED << state, pc, hist, boundary_vars, searched, kb_files, documents,
                  build_log, calls, loop >>

ThreadsInit ==
  /\ state = IdleState
  /\ pc = "threads"
  /\ hist = <<>>
  /\ vector_store = "none"
  /\ request = None
  /\ response = NoResponse
  /\ requests = [c \in Customers |-> <<>>]
  /\ daily_costs = [c \in Customers |-> 0]
  /\ last_reset = 0
  /\ fallback_rate = 0
  /\ now = 0
  /\ received = 0
  /\ searched = None
  /\ kb_files = None
  /\ documents = {}
  /\ build_log = <<>>
  /\ threads = [t \in Threads |-> [at |-> "call", got |-> 0]]
  /\ instances = <<>>
  /\ calls = <<>>
  /\ loop = NoTasks

ThreadsNext ==
  \E t \in Threads :
    \/ CheckSingleton(t)
    \/ BuildSingleton(t)

ThreadsSpec == ThreadsInit /\ [][ThreadsNext]_vars

Keys == {"user1", "user2"}

LimiterCall ==
  /\ pc = "idle"
  /\ Len(calls) < MaxCalls
  /\ \E k \in Keys :
       LET verdict == is_allowed(requests, k, now)
       IN  /\ requests' = verdict.requests
           /\ calls' = Append(calls, [key |-> k, at |-> now,
                                      allowed |-> verdict.allowed])
  /\ UNCHANGED << state, pc, hist, vector_store, request, response, daily_costs,
                  last_reset, fallback_rate, now, received, searched, kb_files,
                  documents, build_log, threads, instances, loop >>

LimiterInit ==
  /\ state = IdleState
  /\ pc = "idle"
  /\ hist = <<>>
  /\ vector_store = "none"
  /\ request = None
  /\ response = NoResponse
  /\ requests = [k \in Keys |-> <<>>]
  /\ daily_costs = [c \in Customers |-> 0]
  /\ last_reset = 0
  /\ fallback_rate = 0
  /\ now = 0
  /\ received = 0
  /\ ComponentsUnused

LimiterNext ==
  \/ Tick
  \/ LimiterCall

LimiterSpec == LimiterInit /\ [][LimiterNext]_vars

\* The calls made for key k, in order.
CallsOf(k) == SelectSeq(calls, LAMBDA c : c.key = k)

\* C18: for a key that starts with an empty history, of the calls that fall
\* within one window of the first exactly the first max_requests are allowed
\* and the next is refused.
C18_FirstMaxAllowed ==
  \A k \in Keys :
    \A j \in 1..Len(CallsOf(k)) :
      CallsOf(k)[j].at - CallsOf(k)[1].at < WindowSeconds =>
        (CallsOf(k)[j].allowed <=> j <= RateLimitPerUser)

\* A key used up its limit and was refused within the same window.
C18_Witness ==
  \E k \in Keys :
    /\ Len(CallsOf(k)) > RateLimitPerUser
    /\ CallsOf(k)[RateLimitPerUser + 1].at - CallsOf(k)[1].at < WindowSeconds
    /\ ~CallsOf(k)[RateLimitPerUser + 1].allowed
    /\ \A j \in 1..RateLimitPerUser : CallsOf(k)[j].allowed

\* The verdicts and the history a limiter that serves k alone gives for the
\* calls cs, starting from the history h.
RECURSIVE Alone(_, _, _)
Alone(k, cs, h) ==
  IF cs = <<>> THEN [verdicts |-> <<>>, history |-> h]
  ELSE LET verdict == is_allowed([x \in {k} |-> h], k, Head(cs).at)
           rest == Alone(k, Tail(cs), verdict.requests[k])
       IN  [verdicts |-> <<verdict.allowed>> \o rest.verdicts,
            history |-> rest.history]

\* C19: keys are independent: the verdicts for a key and the history kept for
\* it are those of a limiter that was never called for any other key.
C19_KeysIndependent ==
  \A k \in Keys :
    /\ [j \in 1..Len(CallsOf(k)) |-> CallsOf(k)[j].allowed]
         = Alone(k, CallsOf(k), <<>>).verdicts
    /\ requests[k] = Alone(k, CallsOf(k), <<>>).history

\* One key was refused and, at the same instant, the other was allowed.
C19_Witness ==
  \E i, j \in 1..Len(calls) :
    /\ i < j
    /\ calls[i].key # calls[j].key
    /\ calls[i].at = calls[j].at
    /\ ~calls[i].allowed
    /\ calls[j].allowed

\* ------------------------------------------------------------ rejections
\* The caller was turned away by the rate limit or the injection check.
Rejected(r) == r.status \in {429, 400}

\* C20: a request rejected for the rate limit or for injection is rejected
\* before the pipeline starts: no request state is built, no stage runs, the
\* store is not touched, no cost is recorded, and nothing but the handler's
\* return follows.
C20_RejectedBeforePipeline ==
  [][ /\ Rejected(response') =>
           /\ pc = "idle"
           /\ state' = IdleState
           /\ hist' = <<>>
           /\ vector_store' = vector_store
           /\ daily_costs' = daily_costs
           /\ last_reset' = last_reset
      /\ Rejected(response) =>
           /\ pc' = "idle"
           /\ hist' = <<>>
           /\ vector_store' = vector_store
           /\ daily_costs' = daily_costs
    ]_vars

\* A request was refused by the rate limit after an earlier one had gone
\* through the pipeline and been charged.
C20_Witness ==
  /\ pc = "responded"
  /\ response.status = 429
  /\ vector_store # "none"
  /\ \E c \in Customers : daily_costs[c] > 0

\* ------------------------------------------------------------ cost limit
\* C21: the daily cost limit is advisory: the request whose cost takes the
\* customer over the limit gets its normal response, and whether a later
\* request is accepted depends on the rate limit and the injection check
\* alone, whatever the customer's total.
C21_CostLimitAdvisory ==
  [][ /\ (pc = "END" /\ pc' = "responded") =>
           /\ response'.status = 200
           /\ response'.answer
                = Fallback(state.confidence, redact_pii(state.answer)).answer
           /\ response'.confidence = state.confidence
           /\ response'.sources = state.rag_sources
      /\ (pc = "idle" /\ request' # None) =>
           LET req == request'[1]
               raw == IF req.query = None THEN <<>> ELSE req.query[1]
           IN  (pc' = "planner") <=>
                 /\ is_allowed(requests, req.customer_id, now).allowed
                 /\ ~(raw # <<>> /\ detect_prompt_injection(raw))
    ]_vars

\* A request of a customer whose total is over the limit entered the pipeline.
C21_Witness ==
  /\ pc = "planner"
  /\ request # None
  /\ daily_costs[request[1].customer_id] > MaxDailyCost

\* ------------------------------------------------------------ cost controller
\* One CostController called for several customers as time passes.
Costs == {-1, 0, 2, 3}

CostCall ==
  /\ pc = "idle"
  /\ Len(calls) < MaxCalls
  /\ \E k \in Keys, cost \in Costs :
       LET checked == record_and_check(daily_costs, last_reset, k, cost, now)
       IN  /\ daily_costs' = checked.daily_costs
           /\ last_reset' = checked.last_reset
           /\ calls' = Append(calls,
                [key |-> k, at |-> now, cost |-> cost,
                 reset |-> checked.last_reset # last_reset,
                 allowed |-> checked.within])
  /\ UNCHANGED << state, pc, hist, vector_store, request, response, requests,
                  fallback_rate, now, received, searched, kb_files, documents,
                  build_log, threads, instances, loop >>

\* The clock runs until a reset period has gone by.
CostTick ==
  /\ pc = "idle"
  /\ now <= ResetSeconds
  /\ now' = now + 1
  /\ UNCHANGED << state, pc, hist, vector_store, request, response, requests,
                  daily_costs, last_reset, fallback_rate, received >>
  /\ UNCHANGED component_vars

CostInit ==
  /\ state = IdleState
  /\ pc = "idle"
  /\ hist = <<>>
  /\ vector_store = "none"
  /\ request = None
  /\ response = NoResponse
  /\ requests = [c \in Customers |-> <<>>]
  /\ daily_costs = [k \in Keys |-> 0]
  /\ last_reset = 0
  /\ fallback_rate = 0
  /\ now = 0
  /\ received = 0
  /\ ComponentsUnused

CostNext ==
  \/ CostTick
  \/ CostCall

CostSpec == CostInit /\ [][CostNext]_vars

\* The last call up to the i-th at which the totals were cleared (0: never).
LastReset(i) ==
  IF \E r \in 1..i : calls[r].reset
  THEN CHOOSE r \in 1..i : calls[r].reset /\ \A q \in (r + 1)..i : ~calls[q].reset
  ELSE 0

\* The costs of customer k recorded by the calls from..to.
RECURSIVE Recorded(_, _, _)
Recorded(k, from, to) ==
  IF from > to THEN 0
  ELSE (IF calls[to].key = k THEN calls[to].cost ELSE 0) + Recorded(k, from, to - 1)

\* Customer k's running total after the i-th call.
RunningTotal(k, i) ==
  Recorded(k, IF LastReset(i) = 0 THEN 1 ELSE LastReset(i), i)

\* C22: record_and_check always adds the cost to the customer's running
\* total, answers true exactly when that total does not exceed the daily
\* maximum, and after answering false for a customer keeps answering false
\* for non-negative costs until a reset clears the totals.
C22_RecordAndCheck ==
  /\ \A k \in Keys : daily_costs[k] = RunningTotal(k, Len(calls))
  /\ \A i \in 1..Len(calls) :
       calls[i].allowed <=> RunningTotal(calls[i].key, i) <= MaxDailyCost
  /\ \A i, j \in 1..Len(calls) :
       (/\ i < j
        /\ calls[i].key = calls[j].key
        /\ ~calls[i].allowed
        /\ \A q \in (i + 1)..j :
             /\ ~calls[q].reset
             /\ calls[q].key = calls[i].key => calls[q].cost >= 0)
       => ~calls[j].allowed

\* A customer went over the limit and was refused again on a later call of
\* no cost.
C22_Witness ==
  /\ Len(calls) = 3
  /\ \A i \in 1..3 : calls[i].key = calls[1].key /\ ~calls[i].reset
  /\ RunningTotal(calls[1].key, 1) < MaxDailyCost
  /\ calls[1].allowed
  /\ ~calls[2].allowed
  /\ calls[3].cost = 0
  /\ ~calls[3].allowed

\* ------------------------------------------------------------ analyzer
\* analyze_financials called on its own, on any transaction list and on a
\* state that may already hold tool results.
AnalyzerTransactions ==
  [amount : {-2, -1, 0, 1, 3}, category : {"", "rev", "uncategorized"}]

OtherResult == [NoData EXCEPT !.kind = "other"]

ToolResultsBefore ==
  { <<>>,
    << [key |-> "credit_check", value |-> OtherResult] >>,
    << [key |-> "financial_analysis", value |-> OtherResult],
       [key |-> "credit_check", value |-> OtherResult] >> }

AnalyzerInit ==
  /\ \E c \in Customers, txs \in SeqsUpTo(AnalyzerTransactions, MaxTx),
        results \in ToolResultsBefore, log \in {<<>>, <<"rag_retrieval">>} :
       state = [AgentState(c, None, txs, <<>>) EXCEPT
                  !.tool_results = results, !.tools_executed = log]
  /\ pc = "analyzer"
  /\ hist = <<>>
  /\ vector_store = "none"
  /\ request = None
  /\ response = NoResponse
  /\ requests = [c \in Customers |-> <<>>]
  /\ daily_costs = [c \in Customers |-> 0]
  /\ last_reset = 0
  /\ fallback_rate = 0
  /\ now = 0
  /\ received = 0
  /\ ComponentsUnused

AnalyzerNext == AnalyzerStep

AnalyzerSpec == AnalyzerInit /\ [][AnalyzerNext]_vars

RECURSIVE SumSeq(_)
SumSeq(ns) == IF ns = <<>> THEN 0 ELSE Head(ns) + SumSeq(Tail(ns))

\* The analyzer has run; what it was called on and what it stored.
Analysed == hist # <<>> /\ hist[1].node = "analyzer"

AnalysedOn == hist[1].input.transactions

ValueOf(d, key) == (CHOOSE e \in {d[i] : i \in 1..Len(d)} : e.key = key).value

Analysis == ValueOf(hist[1].delta.tool_results, "financial_analysis")

Income(txs) ==
  SumSeq([i \in 1..Len(txs) |-> IF txs[i].amount > 0 THEN txs[i].amount ELSE 0])

Expenses(txs) ==
  SumSeq([i \in 1..Len(txs) |-> IF txs[i].amount < 0 THEN -txs[i].amount ELSE 0])

Bucket(t) == IF t.category = "" THEN "uncategorized" ELSE t.category

\* The absolute volume of the transactions in bucket b.
Volume(txs, b) ==
  SumSeq([i \in 1..Len(txs) |->
            IF Bucket(txs[i]) = b THEN Abs(txs[i].amount) ELSE 0])

\* C23: for any transaction list the net cash flow is the sum of the positive
\* amounts minus the absolute sum of the negative ones, and the category
\* totals, unlabeled transactions counted under "uncategorized", add up to the
\* total absolute volume.
C23_NetAndCategoryTotals ==
  (Analysed /\ AnalysedOn # <<>>) =>
    LET txs == AnalysedOn
        cats == Analysis.categories
    IN  /\ Analysis.total_income = Income(txs)
        /\ Analysis.total_expenses = Expenses(txs)
        /\ Analysis.net_cashflow = Income(txs) - Expenses(txs)
        /\ \A i, j \in 1..Len(cats) : cats[i].key = cats[j].key => i = j
        /\ {cats[i].key : i \in 1..Len(cats)} = {Bucket(txs[i]) : i \in 1..Len(txs)}
        /\ \A i \in 1..Len(cats) : cats[i].value = Volume(txs, cats[i].key)
        /\ SumSeq([i \in 1..Len(cats) |-> cats[i].value])
             = SumSeq([i \in 1..Len(txs) |-> Abs(txs[i].amount)])

\* Income and expenses together, one of them unlabeled.
C23_Witness ==
  /\ Analysed
  /\ Len(AnalysedOn) = MaxTx
  /\ Income(AnalysedOn) > 0
  /\ Expenses(AnalysedOn) > 0
  /\ \E i \in 1..Len(AnalysedOn) : AnalysedOn[i].category = ""
  /\ Analysis.net_cashflow < 0

\* C24: for a non-empty list the analysis carries one cash-flow indicator,
\* the negative warning when the net cash flow is zero or less and the
\* positive one when it is above zero, and the expense ratio exactly when the
\* income is above zero.
C24_IndicatorAndRatio ==
  (Analysed /\ AnalysedOn # <<>>) =>
    LET net == Income(AnalysedOn) - Expenses(AnalysedOn)
    IN  /\ Analysis.indicator \in {"positive", "negative"}
        /\ Analysis.indicator = "negative" <=> net <= 0
        /\ Analysis.indicator = "positive" <=> net > 0
        /\ Analysis.has_ratio <=> Income(AnalysedOn) > 0

\* Income and expenses cancel: the warning with a ratio.
C24_Witness ==
  /\ Analysed
  /\ Income(AnalysedOn) > 0
  /\ Income(AnalysedOn) = Expenses(AnalysedOn)
  /\ Analysis.indicator = "negative"
  /\ Analysis.has_ratio

\* C25: on an empty transaction list the analyzer stores the no-data message
\* under financial_analysis, still logs the stage in tools_executed, and
\* keeps every other key of tool_results with its value.
C25_NoDataKeepsOtherResults ==
  (Analysed /\ AnalysedOn = <<>>) =>
    LET before == hist[1].input.tool_results
        after == hist[1].delta.tool_results
    IN  /\ Analysis = NoData
        /\ hist[1].delta.tools_executed
             = Append(hist[1].input.tools_executed, "financial_analysis")
        /\ \A i, j \in 1..Len(after) : after[i].key = after[j].key => i = j
        /\ {after[i].key : i \in 1..Len(after)}
             = {before[i].key : i \in 1..Len(before)} \cup {"financial_analysis"}
        /\ \A i \in 1..Len(before) :
             before[i].key # "financial_analysis" =>
               ValueOf(after, before[i].key) = before[i].value
        /\ state.tool_results = after
        /\ state.tools_executed = hist[1].delta.tools_executed

\* No transactions, and results of another tool and of an earlier analysis
\* already stored.
C25_Witness ==
  /\ Analysed
  /\ AnalysedOn = <<>>
  /\ Len(hist[1].input.tool_results) = 2
  /\ hist[1].input.tools_executed # <<>>
  /\ pc = "synthesizer"

\* ------------------------------------------------------------ security gate
\* A request is in the pipeline: its state was built and a stage is due or
\* the run has ended.
InPipeline == request # None /\ pc \in {"planner", "retriever", "analyzer",
                                        "synthesizer", "END", "raised"}

\* C26: the query an accepted request carries into the pipeline, that is the
\* sanitized one, matches no injection pattern.
C26_PipelineQueryClean ==
  InPipeline => ~detect_prompt_injection(state.query)

\* ------------------------------------------------------------ end-to-end scenario
\* The run of test_with_transactions' customer through the whole graph:
\* segment "middle", transactions +5000, -2000, -500, no query.
ScenarioTransactions ==
  << [amount |-> 5000, category |-> "revenue"],
     [amount |-> -2000, category |-> "supplier"],
     [amount |-> -500, category |-> "utilities"] >>

ScenarioInit ==
  /\ \E c \in Customers, p \in {x \in Profiles : x.segment = "middle"} :
       state = AgentState(c, Some(p), ScenarioTransactions, <<>>)
  /\ pc = "planner"
  /\ hist = <<>>
  /\ vector_store \in {"none", "supabase", "chroma"}
  /\ request = None
  /\ response = NoResponse
  /\ requests = [c \in Customers |-> <<>>]
  /\ daily_costs = [c \in Customers |-> 0]
  /\ last_reset = 0
  /\ fallback_rate = 0
  /\ now = 0
  /\ received = 0
  /\ ComponentsUnused

ScenarioSpec == ScenarioInit /\ [][GraphNext]_vars

\* What the scenario fixes whatever the backends do: the plan and the figures
\* of the analysis.
ScenarioPlanAndAnalysis ==
  /\ state.plan = <<"retrieve_knowledge", "analyze_financials">>
  /\ LET analysis == ValueOf(state.tool_results, "financial_analysis")
     IN  /\ analysis.total_income = 5000
         /\ analysis.total_expenses = 2500
         /\ analysis.net_cashflow = 2500
         /\ analysis.indicator = "positive"

\* C27 as stated: at the end of the scenario's run the plan is
\* [retrieve_knowledge, analyze_financials], the analysis reports income 5000,
\* expenses 2500, net 2500 and the positive indicator, and the confidence is
\* at least 0.80.
C27_ScenarioAsStated ==
  pc = "END" => (ScenarioPlanAndAnalysis /\ state.confidence >= 80)

\* C27 amended: the plan and the analysis are as stated; the confidence is at
\* least 0.80 when the generative call succeeded and 0.0 when it failed.
C27_ScenarioConfidenceIfGenerated ==
  pc = "END" =>
    /\ ScenarioPlanAndAnalysis
    /\ hist[Len(hist)].node = "synthesizer"
    /\ hist[Len(hist)].failure = "none" => state.confidence >= 80
    /\ hist[Len(hist)].failure = "generation" => state.confidence = 0

\* The scenario ended with an answer generated although the retrieval had
\* failed: the confidence is exactly 0.80.
C27_Witness ==
  /\ pc = "END"
  /\ hist[Len(hist)].failure = "none"
  /\ state.errors # <<>>
  /\ state.confidence = 80


\* ------------------------------------------------------------ concurrent requests
\* server.py declares the handler "async def invoke_agent" and runs it on the
\* server's event loop. One thread serves every task of the loop, and a task
\* gives the thread up only at an await. The handler has none: the gate,
\* agent_graph.invoke(initial_state), and inside it httpx.Client.post
\* (supabase_store.py) and llm.invoke (synthesizer.py) are synchronous calls,
\* so the thread stays inside the handler, waiting on the socket, until the
\* backend answers.
MaxTasks == 3

Tasks == 1..MaxTasks

OutboundCalls == { "retrieval_call", "generation_call" }

NewTask == [at |-> "scheduled", retrieval |-> "none", generation |-> "none"]

\* A request reaches the service: a task for invoke_agent is scheduled.
LoopArrive ==
  /\ pc = "loop"
  /\ Len(loop.tasks) < MaxTasks
  /\ loop' = [loop EXCEPT !.tasks = Append(@, NewTask)]
  /\ UNCHANGED << state, pc, hist, vector_store, boundary_vars, searched,
                  kb_files, documents, build_log, threads, instances, calls >>

\* The loop, running no task, picks a scheduled one: the handler passes the
\* gate and agent_graph.invoke enters the planner.
LoopStart(t) ==
  /\ pc = "loop"
  /\ t \in DOMAIN loop.tasks
  /\ loop.running = 0
  /\ loop.tasks[t].at = "scheduled"
  /\ loop' = [running |-> t,
              tasks |-> [loop.tasks EXCEPT ![t].at = "planner"]]
  /\ UNCHANGED << state, pc, hist, vector_store, boundary_vars, searched,
                  kb_files, documents, build_log, threads, instances, calls >>

\* The thread, inside t's handler, runs a stage up to its outbound call:
\* planner then retriever up to self._client.post, analyzer then synthesizer
\* up to llm.invoke.
LoopAdvance(t) ==
  /\ pc = "loop"
  /\ t \in DOMAIN loop.tasks
  /\ loop.running = t
  /\ loop.tasks[t].at \in { "planner", "analyzer" }
  /\ loop' = [loop EXCEPT !.tasks[t].at =
                IF @ = "planner" THEN "retrieval_call" ELSE "generation_call"]
  /\ UNCHANGED << state, pc, hist, vector_store, boundary_vars, searched,
                  kb_files, documents, build_log, threads, instances, calls >>

\* The backend answers (or the call fails) and the synchronous call returns
\* to the thread that made it. After the generative call the handler builds
\* the response and returns: the task is over and the loop is free.
LoopReturn(t) ==
  /\ pc = "loop"
  /\ t \in DOMAIN loop.tasks
  /\ loop.running = t
  /\ loop.tasks[t].at \in OutboundCalls
  /\ \E outcome \in { "ok", "failed" } :
       IF loop.tasks[t].at = "retrieval_call"
       THEN loop' = [loop EXCEPT !.tasks[t] =
                       [@ EXCEPT !.at = "analyzer", !.retrieval = outcome]]
       ELSE loop' = [running |-> 0,
                     tasks |-> [loop.tasks EXCEPT ![t] =
                       [@ EXCEPT !.at = "responded", !.generation = outcome]]]
  /\ UNCHANGED << state, pc, hist, vector_store, boundary_vars, searched,
                  kb_files, documents, build_log, threads, instances, calls >>

\* Any step of request t's own pipeline.
Progress(t) == LoopStart(t) \/ LoopAdvance(t) \/ LoopReturn(t)

LoopInit ==
  /\ state = IdleState
  /\ pc = "loop"
  /\ hist = <<>>
  /\ vector_store = "none"
  /\ request = None
  /\ response = NoResponse
  /\ requests = [c \in Customers |-> <<>>]
  /\ daily_costs = [c \in Customers |-> 0]
  /\ last_reset = 0
  /\ fallback_rate = 0
  /\ now = 0
  /\ received = 0
  /\ ComponentsUnused

LoopNext ==
  \/ LoopArrive
  \/ \E t \in Tasks : LoopStart(t)
  \/ \E t \in Tasks : LoopAdvance(t)
  \/ \E t \in Tasks : LoopReturn(t)

LoopSpec == LoopInit /\ [][LoopNext]_vars

InFlight(t) == t \in DOMAIN loop.tasks /\ loop.tasks[t].at # "responded"

InCall(t) == t \in DOMAIN loop.tasks /\ loop.tasks[t].at \in OutboundCalls

\* C28: while one request is suspended in a call to the retrieval backend or
\* to the generative-text backend, every other request in flight can take a
\* step of its own pipeline.
C28_CallsDoNotBlockOthers ==
  \A t \in Tasks : \A u \in Tasks :
    (t # u /\ InCall(t) /\ InFlight(u)) => ENABLED Progress(u)

\* No step of the loop changes the record of a task other than the one that
\* takes it: a request's work is never cancelled or undone by another's.
NoTaskCancelsAnother ==
  [][\A u \in DOMAIN loop.tasks :
       (loop.tasks'[u] # loop.tasks[u]) => loop'.running = u \/ loop.running = u]_vars


\* ------------------------------------------------------------ execution log
IsPrefix(s, t) == Len(s) <= Len(t) /\ SubSeq(t, 1, Len(s)) = s

\* The stage that writes a given entry of tools_executed.
StageOf(entry) ==
  CASE entry \in {"rag_retrieval", "rag_retrieval_failed"} -> "retriever"
    [] entry = "financial_analysis" -> "analyzer"
    [] entry \in {"llm_synthesis", "llm_synthesis_failed"} -> "synthesizer"
    [] OTHER -> "none"

\* The value of key k after the i-th node of the run: its delta merged into
\* the state it was invoked on.
After(i, k) == Merge(hist[i].input, hist[i].delta)[k]

\* C29: tools_executed is an append-only ordered log. The planner leaves it as
\* it is; every other node that runs keeps the earlier entries in place and
\* appends exactly one entry, its own; so at END the log names the executed
\* stages after the planner in execution order and its last entry is
\* llm_synthesis or llm_synthesis_failed.
C29_ToolsExecutedAppendOnly ==
  /\ \A i \in 1..Len(hist) :
       LET before == hist[i].input.tools_executed
           after == After(i, "tools_executed")
       IN  IF hist[i].node = "planner"
           THEN after = before
           ELSE /\ IsPrefix(before, after)
                /\ Len(after) = Len(before) + 1
                /\ StageOf(after[Len(after)]) = hist[i].node
  /\ pc = "END" =>
       /\ Len(state.tools_executed) = Len(hist) - 1
       /\ \A i \in 1..Len(state.tools_executed) :
            StageOf(state.tools_executed[i]) = hist[i + 1].node
       /\ state.tools_executed[Len(state.tools_executed)]
            \in {"llm_synthesis", "llm_synthesis_failed"}

\* A run in which retriever, analyzer and synthesizer each appended, the
\* retrieval and the generation having failed.
C29_Witness ==
  /\ pc = "END"
  /\ state.tools_executed =
       <<"rag_retrieval_failed", "financial_analysis", "llm_synthesis_failed">>


\* ------------------------------------------------------------ error list
\* The nodes of the run whose backend failed.
FailedStages == {i \in 1..Len(hist) : hist[i].failure # "none"}

\* No node removes or reorders an entry of errors.
ErrorsPrefixKept ==
  \A i \in 1..Len(hist) : IsPrefix(hist[i].input.errors, After(i, "errors"))

\* C30: errors is append-only across the run: after every node the earlier
\* entries are a prefix of its value, a node whose backend failed adds exactly
\* one entry and any other node adds none, so at END its length is the number
\* of failed stages, at most two.
C30_ErrorsCountFailedStages ==
  /\ ErrorsPrefixKept
  /\ \A i \in 1..Len(hist) :
       Len(After(i, "errors")) =
         Len(hist[i].input.errors) + (IF i \in FailedStages THEN 1 ELSE 0)
  /\ pc = "END" =>
       /\ Len(state.errors) = Cardinality(FailedStages)
       /\ Len(state.errors) <= 2


\* ------------------------------------------------------------ field ownership
\* The keys of AgentState each node may return in its delta.
Owned(node) ==
  CASE node = "planner" -> {"plan"}
    [] node = "retriever" ->
         {"retrieved_context", "rag_sources", "tools_executed", "errors"}
    [] node = "analyzer" -> {"tool_results", "tools_executed"}
    [] node = "synthesizer" ->
         {"answer", "reasoning", "confidence", "token_usage", "tools_executed",
          "errors"}

RequestFields == {"customer_id", "profile", "transactions", "query"}

\* C31: each node changes only the fields it owns: its delta names no other
\* key, every key outside its own has the same value after the node as
\* before, and customer_id, profile, transactions and query keep the values
\* the run started with.
C31_StagesChangeOwnedFieldsOnly ==
  /\ \A i \in 1..Len(hist) :
       /\ DOMAIN hist[i].delta \subseteq Owned(hist[i].node)
       /\ \A k \in DOMAIN hist[i].input :
            After(i, k) # hist[i].input[k] => k \in Owned(hist[i].node)
  /\ hist # <<>> =>
       \A k \in RequestFields : state[k] = hist[1].input[k]

\* All four nodes ran and each changed what it owns: a plan, a retrieval
\* error, an analysis, an apology with a second error.
C31_Witness ==
  /\ pc = "END"
  /\ Len(hist) = 4
  /\ state.plan # <<>>
  /\ state.tool_results # <<>>
  /\ Len(state.errors) = 2
  /\ state.answer = Apology


\* ------------------------------------------------------------ returned confidence
GenerationFailed == \E i \in 1..Len(hist) : hist[i].failure = "generation"

\* C32: the confidence of a 200 response is 0.0 or at least 0.5, and it is 0.0
\* exactly when the generative call failed; so when the (redacted) answer is
\* not empty the fallback is counted exactly when the generation failed.
C32_ConfidenceZeroIffGenerationFailed ==
  /\ [](pc = "responded" /\ response.status = 200 =>
          /\ response.confidence = 0 \/ response.confidence >= 50
          /\ response.confidence = 0 <=> GenerationFailed)
  /\ [][ (pc = "END" /\ pc' = "responded"
          /\ redact_pii(state.answer) # <<>>) =>
           (fallback_rate' = fallback_rate + 1 <=> GenerationFailed) ]_vars

\* A request answered with confidence 0.0 after the generative call failed,
\* counted as a fallback although the answer, the apology, is not empty.
C32_Witness ==
  /\ pc = "responded"
  /\ response.status = 200
  /\ response.confidence = 0
  /\ response.answer = Apology
  /\ GenerationFailed
  /\ fallback_rate > 0


\* ------------------------------------------------------------ limiter history
\* The times of the allowed calls among cs.
AllowedTimes(cs) ==
  LET allowed == SelectSeq(cs, LAMBDA c : c.allowed)
  IN  [j \in 1..Len(allowed) |-> allowed[j].at]

\* C33: after any sequence of is_allowed calls the history kept for a key has
\* at most max_requests timestamps, and it is exactly the times of the key's
\* allowed calls that were inside the window at the key's latest call: a
\* refused call leaves no timestamp and no expired timestamp survives a call.
C33_HistoryBounded ==
  \A k \in Keys :
    /\ Len(requests[k]) <= RateLimitPerUser
    /\ CallsOf(k) = <<>> => requests[k] = <<>>
    /\ CallsOf(k) # <<>> =>
         LET latest == CallsOf(k)[Len(CallsOf(k))].at
         IN  requests[k] = Newer(AllowedTimes(CallsOf(k)), latest - WindowSeconds)

\* A key was allowed, refused, and allowed again once its first timestamp had
\* expired: the history holds the new timestamp only.
C33_Witness ==
  \E k \in Keys :
    /\ Len(CallsOf(k)) = 3
    /\ CallsOf(k)[1].allowed
    /\ ~CallsOf(k)[2].allowed
    /\ CallsOf(k)[3].allowed
    /\ requests[k] = <<CallsOf(k)[3].at>>


\* ------------------------------------------------------------ sliding window
\* The calls for k before its j-th that were allowed at a time strictly newer
\* than the j-th call's time minus the window.
StillCounted(k, j) ==
  {i \in 1..(j - 1) :
     /\ CallsOf(k)[i].allowed
     /\ CallsOf(k)[i].at > CallsOf(k)[j].at - WindowSeconds}

\* C34: the limiter is a sliding window: for every key and every time t at
\* most max_requests calls with a time in (t - window_seconds, t] were
\* allowed; and every call is allowed exactly when fewer than max_requests of
\* the key's allowed calls are strictly newer than now - window_seconds, so a
\* refused key is allowed again as soon as that is the case and a timestamp
\* exactly window_seconds old no longer counts.
C34_SlidingWindow ==
  \A k \in Keys :
    /\ \A t \in 0..(MaxTime + WindowSeconds) :
         Cardinality({j \in 1..Len(CallsOf(k)) :
                        /\ CallsOf(k)[j].allowed
                        /\ CallsOf(k)[j].at > t - WindowSeconds
                        /\ CallsOf(k)[j].at <= t}) <= RateLimitPerUser
    /\ \A j \in 1..Len(CallsOf(k)) :
         CallsOf(k)[j].allowed <=>
           Cardinality(StillCounted(k, j)) < RateLimitPerUser

\* A key that was refused is allowed at the instant its oldest timestamp is
\* exactly window_seconds old.
C34_Witness ==
  \E k \in Keys :
    \E i, j \in 1..Len(CallsOf(k)) :
      /\ i < j
      /\ ~CallsOf(k)[i].allowed
      /\ CallsOf(k)[j].allowed
      /\ CallsOf(k)[j].at - CallsOf(k)[1].at = WindowSeconds


\* ------------------------------------------------------------ order of the gate
\* C35: the rate limiter is asked first and records the call it allows: a
\* request refused for injection (400) was allowed by the limiter and adds
\* one timestamp, the current time, to its customer's window; a request
\* refused by the limiter (429) adds none, whatever its query.
C35_InjectionRejectionUsesSlot ==
  [][ (pc = "idle" /\ pc' = "responded") =>
        LET c == request'[1].customer_id
            live == Newer(requests[c], now - WindowSeconds)
        IN  /\ response'.status = 429 <=> Len(live) >= RateLimitPerUser
            /\ response'.status = 429 => requests'[c] = live
            /\ response'.status = 400 => requests'[c] = Append(live, now) ]_vars

\* A request was refused for injection and its customer's window holds the
\* timestamp of that request.
C35_Witness ==
  /\ pc = "responded"
  /\ response.status = 400
  /\ requests[request[1].customer_id] = <<now>>


\* ------------------------------------------------------------ store singleton
\* C36: a failed store initialisation is not cached and a successful one is
\* kept. When the retriever runs with the singleton unset, initialisation is
\* attempted: either it raises, the singleton stays unset and the node
\* records exactly one error, or the store it built becomes the singleton.
\* When the singleton is set, no step replaces it and the retriever meets no
\* initialisation failure.
C36_FailedInitNotCached ==
  [][ /\ vector_store # "none" => vector_store' = vector_store
      /\ (pc = "retriever" /\ pc' # "retriever") =>
           LET step == hist'[Len(hist')]
           IN  /\ vector_store # "none" => step.failure # "store_init"
               /\ vector_store = "none" =>
                    IF step.failure = "store_init"
                    THEN /\ vector_store' = "none"
                         /\ "raise" \notin DOMAIN step.delta
                         /\ "errors" \in DOMAIN step.delta
                         /\ Len(step.delta.errors) = Len(step.input.errors) + 1
                    ELSE vector_store' # "none" ]_vars

\* The second request's retriever attempted the initialisation again and it
\* failed again: the first request was answered (its cost is recorded) with
\* the singleton left unset.
C36_Witness ==
  /\ received = 2
  /\ \E c \in Customers : daily_costs[c] > 0
  /\ pc \in {"analyzer", "synthesizer"}
  /\ vector_store = "none"
  /\ hist[Len(hist)].node = "retriever"
  /\ hist[Len(hist)].failure = "store_init"
  /\ Len(state.errors) = 1



\* ------------------------------------------------------------ hash over the ingest
\* The rows a complete ingest of kb puts in the table.
RowsOf(kb) ==
  IF kb = None THEN {}
  ELSE {ChunkRow(ChunksOf(kb[1])[j]) : j \in 1..Len(ChunksOf(kb[1]))}

\* The table holds the hash row of kb.
HashPersisted(table, kb) ==
  MetaRow("kb_content_hash", _compute_kb_hash(kb)) \in table

\* C37: after an initialisation of the remote store has returned, if the
\* persisted hash is the hash of the current corpus then the table holds a
\* row for every chunk of that corpus, whichever delete, ingest batch or hash
\* write failed.
C37_HashImpliesFullIngest ==
  \A i \in RemoteBuilds :
    (~Remote(i).raised /\ HashPersisted(build_log[i].after, build_log[i].kb)) =>
      RowsOf(build_log[i].kb) \subseteq build_log[i].after


\* ------------------------------------------------------------ hash row in the table

\* The remote calls of an initialisation may fail; the local libraries work
\* and no ingest batch is refused.
RemoteCallEnvs ==
  { e \in BuildEnvs :
      /\ e.embedding_fn = "ok" /\ e.hash = "ok" /\ e.embed = "ok"
      /\ e.refused = {} /\ e.chroma = "ok" }

FlakyStoreNext ==
  \/ Initialise(RemoteCallEnvs)
  \/ Restart
  \/ EditCorpus
  \/ LoseChunks

FlakyStoreSpec == StoreInit /\ [][FlakyStoreNext]_vars

HashRows(table) == {r \in table : r.id = <<"_meta_", "kb_content_hash">>}

Issued(i, op) == \E k \in 1..Len(Remote(i).ops) : Remote(i).ops[k] = op

\* C38: the hash row is a row of the documents table. A delete-all that the
\* backend carried out removes it with the chunks: afterwards the table holds
\* only what this initialisation wrote. The count includes it: when a hash
\* was read, it matches and the count query is answered, the count is at
\* least 1, whatever the corpus, and the initialisation takes the up-to-date
\* branch, writing nothing.
C38_HashRowCounted ==
  \A i \in RemoteBuilds :
    /\ (Issued(i, "delete_all") /\ "delete" \notin Remote(i).failed) =>
         /\ build_log[i].after \subseteq
              RowsOf(build_log[i].kb)
              \cup {MetaRow("kb_content_hash", Remote(i).kb_hash)}
         /\ ("set_metadata" \in Remote(i).failed \/ Remote(i).raised) =>
              HashRows(build_log[i].after) = {}
    /\ (/\ Remote(i).stored_hash = Some(Remote(i).kb_hash)
        /\ "count" \notin Remote(i).failed) =>
         /\ HashRows(build_log[i].before) # {}
         /\ Cardinality(build_log[i].before) >= 1
         /\ Remote(i).ops = <<>>
         /\ build_log[i].after = build_log[i].before

\* An empty corpus: the table holds the hash row alone and the next
\* initialisation finds it up to date.
C38_Witness ==
  \E i \in RemoteBuilds :
    /\ build_log[i].kb = Some(<<>>)
    /\ Remote(i).stored_hash = Some(Remote(i).kb_hash)
    /\ "count" \notin Remote(i).failed
    /\ Cardinality(build_log[i].before) = 1
    /\ Remote(i).ops = <<>>

=============================================================================
